---- MODULE Spec2Model ----
(***************************************************************************)
(* Verification model of tsundoku: the name-consensus store               *)
(* (src/src/name_mapping.rs), the name scout (src/src/name_scout.rs), the  *)
(* translator (src/src/translator.rs), the line chunker (src/src/utils.rs) *)
(* and the pipeline steps of src/src/main.rs that use them.                *)
(*                                                                         *)
(* A Rust String is modelled as a sequence of characters.  A character is  *)
(* a one-character TLA+ string when it is printable ASCII, and the token   *)
(* "uXXXX" (its code point) otherwise, e.g. "u7530" is U+7530.             *)
(* Option<T> is modelled as a sequence: <<>> is None, <<x>> is Some(x).    *)
(* A HashMap<String, u32> is modelled as the sequence of its (key, value)  *)
(* pairs in the map's iteration order, which the code depends on.          *)
(***************************************************************************)
EXTENDS Integers, Sequences, FiniteSets

----------------------------------------------------------------------------
(* Bounds of the model *)

\* record_votes is not called once it would raise a count above MaxVotes
MaxVotes == 2

\* chapter numbers are 1..MaxChapter
MaxChapter == 2

\* the texts given to apply_to_text have at most MaxTextLen characters
MaxTextLen == 4

\* the longest argument list of add_coverage
MaxListLen == 3

\* translation.retries is 0..MaxRetries
MaxRetries == 2

\* translation.history_length is 0..MaxHistory
MaxHistory == 2

\* translation.chunk_size_chars is 1 or MaxChunkSize
MaxChunkSize == 3

\* the texts given to the chunkers have at most MaxChunkerLen characters
MaxChunkerLen == 4

\* name_scout.json_retries is 0..MaxJsonRetries
MaxJsonRetries == 2

\* the bytes of the title snippet of translate
SnippetBytes == 30

\* the defaults of TranslationConfig
DefaultRetries == 3
DefaultHistoryLength == 5
DefaultChunkSizeChars == 4000

\* the defaults of NameScoutConfig
DefaultJsonRetries == 3
DefaultScoutChunkSizeChars == 2500

----------------------------------------------------------------------------
(* Characters and strings *)

\* char::is_whitespace / regex \s : the white-space characters of the model
\* (tab, line feed, carriage return, space, ideographic space)
Whitespace ==
    {"u0009", "u000A", "u000D", " ", "u3000"}

UpperAscii ==
    <<"A", "B", "C", "D", "E", "F", "G", "H", "I", "J", "K", "L", "M",
      "N", "O", "P", "Q", "R", "S", "T", "U", "V", "W", "X", "Y", "Z">>

LowerAscii ==
    <<"a", "b", "c", "d", "e", "f", "g", "h", "i", "j", "k", "l", "m",
      "n", "o", "p", "q", "r", "s", "t", "u", "v", "w", "x", "y", "z">>

\* the one-byte characters of the model; every other character of the model
\* lies in U+0800..U+FFFF and takes three bytes in UTF-8
AsciiChars ==
    {UpperAscii[i] : i \in 1..26} \cup {LowerAscii[i] : i \in 1..26} \cup
    {"u0009", "u000A", "u000D", " ", ",", "/", ":", ";", "!", "?", "-",
     "(", ")", "[", "]", "{", "}", "<", ">", "'"}

\* U+00B7 takes two bytes
TwoByteChars ==
    {"u00B7"}

Utf8Len(c) ==
    IF c \in AsciiChars THEN 1 ELSE IF c \in TwoByteChars THEN 2 ELSE 3

\* str::len : the length of a string in bytes
RECURSIVE ByteLen(_)
ByteLen(s) ==
    IF s = <<>> THEN 0 ELSE Utf8Len(Head(s)) + ByteLen(Tail(s))

\* char lower-casing, as str::to_lowercase applies it to each character
LowerChar(c) ==
    IF \E i \in 1..26 : UpperAscii[i] = c
    THEN LowerAscii[CHOOSE i \in 1..26 : UpperAscii[i] = c]
    ELSE c

to_lowercase(s) ==
    [i \in 1..Len(s) |-> LowerChar(s[i])]

\* pat occurs in s at position i (1-based)
MatchesAt(s, pat, i) ==
    /\ i >= 1
    /\ i + Len(pat) - 1 <= Len(s)
    /\ \A j \in 1..Len(pat) : s[i + j - 1] = pat[j]

\* str::contains
Contains(s, pat) ==
    \E i \in 1..(Len(s) + 1) : MatchesAt(s, pat, i)

\* a regex of the form (..|..)$ : s ends with pat
EndsWith(s, pat) ==
    Len(pat) <= Len(s) /\ MatchesAt(s, pat, Len(s) - Len(pat) + 1)

----------------------------------------------------------------------------
(* The rejection rules *)

BadOriginalChars ==
    Whitespace \cup
    {"u30FB", "uFF65", "uFF61", "uFF64", ",", "uFF0C", "u3002", "uFF0F", "/", "uFF1A", ":", ";", "!", "uFF01", "?", "uFF1F", "-", "u2014", "u2013", "u2011", "u00B7", "uFF08", "uFF09", "(", ")", "uFF3B", "]", "{", "}", "uFF1C", "uFF1E", "<", ">", "u300E", "u300F", "u300C", "u300D", "u3008", "u3009", "u3010", "u3011"}

HonorificSuffixes ==
    {<<"u3055", "u3093">>,
     <<"u3061", "u3083", "u3093">>,
     <<"u304F", "u3093">>,
     <<"u541B">>,
     <<"u69D8">>,
     <<"u3055", "u307E">>,
     <<"u6BBF">>,
     <<"u6C0F">>,
     <<"u5148", "u751F">>,
     <<"u5148", "u8F29">>,
     <<"u5B22">>}

ENGLISH_HONORIFICS ==
    {<<"-", "s", "a", "n">>,
     <<"-", "c", "h", "a", "n">>,
     <<"-", "k", "u", "n">>,
     <<"-", "s", "a", "m", "a">>,
     <<" ", "s", "a", "n">>,
     <<" ", "c", "h", "a", "n">>,
     <<" ", "k", "u", "n">>,
     <<" ", "s", "a", "m", "a">>}

ORIGINAL_NAME_DENYLIST ==
    {<<"u5F7C">>,
     <<"u5F7C", "u5973">>,
     <<"u3042", "u3044", "u3064">>,
     <<"u3053", "u3044", "u3064">>,
     <<"u305D", "u3044", "u3064">>,
     <<"u3053", "u3061", "u3068", "u3089">>,
     <<"u3053", "u3061", "u3089">>,
     <<"u81EA", "u5206">>,
     <<"u79C1">>,
     <<"u308F", "u305F", "u3057">>,
     <<"u308F", "u305F", "u304F", "u3057">>,
     <<"u4FFA">>,
     <<"u304A", "u308C">>,
     <<"u50D5">>,
     <<"u307C", "u304F">>,
     <<"u3046", "u3061">>,
     <<"u3042", "u306A", "u305F">>,
     <<"u541B">>,
     <<"u304D", "u307F">>,
     <<"u304A", "u524D">>,
     <<"u304A", "u307E", "u3048">>,
     <<"u8CB4", "u69D8">>,
     <<"u5F7C", "u3089">>,
     <<"u5F7C", "u5973", "u3089">>,
     <<"u4FFA", "u305F", "u3061">>,
     <<"u50D5", "u3089">>,
     <<"u79C1", "u305F", "u3061">>,
     <<"u3042", "u306A", "u305F", "u305F", "u3061">>,
     <<"u7686">>,
     <<"u307F", "u3093", "u306A">>}

\* BAD_ORIGINAL_REGEX.is_match
IsBadOriginal(original) ==
    \E i \in 1..Len(original) : original[i] \in BadOriginalChars

\* HONORIFIC_SUFFIX_REGEX.is_match
HasHonorificSuffix(original) ==
    \E h \in HonorificSuffixes : EndsWith(original, h)

\* ORIGINAL_NAME_DENYLIST.contains
InDenylist(original) ==
    original \in ORIGINAL_NAME_DENYLIST

\* english.chars().any(|c| c.is_whitespace())
HasWhitespace(english) ==
    \E i \in 1..Len(english) : english[i] \in Whitespace

\* ENGLISH_HONORIFICS.iter().any(|h| english_lower.contains(h))
HasEnglishHonorific(english) ==
    \E h \in ENGLISH_HONORIFICS : Contains(to_lowercase(english), h)

\* a faulty IsRejected, without the test of the English honorifics
IsRejected_WithoutEnglishHonorific(entry) ==
    \/ entry.original = <<>>
    \/ entry.english = <<>>
    \/ IsBadOriginal(entry.original)
    \/ InDenylist(entry.original)
    \/ HasWhitespace(entry.english)
    \/ HasHonorificSuffix(entry.original)

\* the chain of `continue`s at the head of the loop of record_votes:
\* TRUE when the entry is skipped
IsRejected(entry) ==
    \/ entry.original = <<>>
    \/ entry.english = <<>>
    \/ IsBadOriginal(entry.original)
    \/ InDenylist(entry.original)
    \/ HasWhitespace(entry.english)
    \/ HasHonorificSuffix(entry.original)
    \/ HasEnglishHonorific(entry.english)

----------------------------------------------------------------------------
(* NameInfo and the votes map *)

\* enum NamePart
NamePart ==
    {"Family", "Given", "Unknown"}

\* NameInfo::new
NameInfo_new(part) ==
    [part |-> part, votes |-> <<>>, english |-> <<>>, count |-> <<>>]

\* the keys of a votes map
VoteKeys(votes) ==
    {votes[i].english : i \in 1..Len(votes)}

\* votes.get(english), for a key of the map
VoteCount(votes, english) ==
    votes[CHOOSE i \in 1..Len(votes) : votes[i].english = english].count

\* the largest count of a non-empty votes map
MaxCount(votes) ==
    CHOOSE m \in {votes[i].count : i \in 1..Len(votes)} :
        \A i \in 1..Len(votes) : votes[i].count <= m

InsertAt(s, pos, x) ==
    SubSeq(s, 1, pos - 1) \o <<x>> \o SubSeq(s, pos, Len(s))

\* a faulty VotesAfterIncrement, which sets the count to one:
\* votes.insert(english, 1)
VotesAfterIncrement_Overwrites(votes, english) ==
    IF english \in VoteKeys(votes)
    THEN {[i \in 1..Len(votes) |->
              IF votes[i].english = english
              THEN [votes[i] EXCEPT !.count = 1]
              ELSE votes[i]]}
    ELSE {InsertAt(votes, pos, [english |-> english, count |-> 1]) :
              pos \in 1..(Len(votes) + 1)}

\* *votes.entry(english).or_insert(0) += 1 : an existing key keeps its place
\* in the iteration order, a new key lands at a place fixed by its hash,
\* which is any place
VotesAfterIncrement(votes, english) ==
    IF english \in VoteKeys(votes)
    THEN {[i \in 1..Len(votes) |->
              IF votes[i].english = english
              THEN [votes[i] EXCEPT !.count = @ + 1]
              ELSE votes[i]]}
    ELSE {InsertAt(votes, pos, [english |-> english, count |-> 1]) :
              pos \in 1..(Len(votes) + 1)}

\* a faulty BestScan, which also takes a rendering that ties with the
\* running best and is not the current best
RECURSIVE BestScan_TakesTies(_, _, _, _)
BestScan_TakesTies(votes, current, i, best) ==
    IF i > Len(votes)
    THEN best
    ELSE LET english == votes[i].english
             count == votes[i].count
             take == \/ count > best.count
                     \/ (count = best.count /\ current # <<english>>)
         IN  BestScan_TakesTies(votes, current, i + 1,
                                IF take
                                THEN [english |-> <<english>>, count |-> count]
                                ELSE best)

\* the loop of recalculate_best over the votes in iteration order, from
\* position i on; best is (best_english, best_count)
RECURSIVE BestScan(_, _, _, _)
BestScan(votes, current, i, best) ==
    IF i > Len(votes)
    THEN best
    ELSE LET english == votes[i].english
             count == votes[i].count
             outer == \/ count > best.count
                      \/ (count = best.count /\ current # <<english>>)
             take == outer /\ count > best.count
         IN  BestScan(votes, current, i + 1,
                      IF take
                      THEN [english |-> <<english>>, count |-> count]
                      ELSE best)

\* a faulty recalculate_best, which keeps the current best rendering as
\* long as it has a vote
recalculate_best_KeepsCurrent(info) ==
    IF info.votes = <<>>
    THEN [info EXCEPT !.english = <<>>, !.count = <<>>]
    ELSE IF info.english # <<>> /\ info.english[1] \in VoteKeys(info.votes)
    THEN [info EXCEPT !.count = <<VoteCount(info.votes, info.english[1])>>]
    ELSE LET best == BestScan(info.votes, info.english, 1,
                              [english |-> <<>>, count |-> 0])
         IN  [info EXCEPT !.english = best.english, !.count = <<best.count>>]

\* NameInfo::recalculate_best
recalculate_best(info) ==
    IF info.votes = <<>>
    THEN [info EXCEPT !.english = <<>>, !.count = <<>>]
    ELSE LET best == BestScan(info.votes, info.english, 1,
                              [english |-> <<>>, count |-> 0])
         IN  IF best.english # <<>>
             THEN [info EXCEPT !.english = best.english,
                               !.count = <<best.count>>]
             ELSE IF info.english # <<>>
             THEN IF info.english[1] \in VoteKeys(info.votes)
                  THEN [info EXCEPT
                           !.count = <<VoteCount(info.votes, info.english[1])>>]
                  ELSE [info EXCEPT
                           !.english = <<info.votes[1].english>>,
                           !.count = <<info.votes[1].count>>]
             ELSE info

----------------------------------------------------------------------------
(* The operations of NameMappingStore on its data *)

\* a faulty insert, which leaves the key alone in the map
Put_DropsOthers(map, key, value) ==
    [k \in {key} |-> value]

\* HashMap insert / replace of one key
Put(map, key, value) ==
    [k \in (DOMAIN map) \cup {key} |-> IF k = key THEN value ELSE map[k]]

\* a faulty UpgradedPart, which takes the part of every accepted entry
UpgradedPart_Overwrites(current, supplied) ==
    supplied

\* the part of a record after an accepted entry
UpgradedPart(current, supplied) ==
    IF current = "Unknown" /\ supplied # "Unknown" THEN supplied ELSE current

\* a faulty record_entry, which records every entry without a test
record_entry_WithoutRules(ns, entry) ==
    LET found == IF entry.original \in DOMAIN ns
                 THEN ns[entry.original]
                 ELSE NameInfo_new(entry.part)
        parted == [found EXCEPT !.part = UpgradedPart(@, entry.part)]
    IN  {Put(ns, entry.original,
             recalculate_best([parted EXCEPT !.votes = v])) :
             v \in VotesAfterIncrement(parted.votes, entry.english)}

\* the body of the loop of record_votes for one entry: the set of maps
\* `names` the entry can leave
record_entry(ns, entry) ==
    IF IsRejected(entry)
    THEN {ns}
    ELSE LET found == IF entry.original \in DOMAIN ns
                      THEN ns[entry.original]
                      ELSE NameInfo_new(entry.part)
             parted == [found EXCEPT !.part = UpgradedPart(@, entry.part)]
         IN  {Put(ns, entry.original,
                  recalculate_best([parted EXCEPT !.votes = v])) :
                  v \in VotesAfterIncrement(parted.votes, entry.english)}

\* NameMappingStore::record_votes on the map `names`
RECURSIVE record_votes(_, _)
record_votes(ns, entries) ==
    IF entries = <<>>
    THEN {ns}
    ELSE UNION {record_votes(n, Tail(entries)) :
                    n \in record_entry(ns, Head(entries))}

\* the inner retain of purge_bad_votes: TRUE when the vote is kept
KeepsVote(english) ==
    ~HasWhitespace(english) /\ ~HasEnglishHonorific(english)

\* the outer retain of purge_bad_votes: TRUE when the original passes
KeepsOriginal(original) ==
    /\ ~IsBadOriginal(original)
    /\ ~HasHonorificSuffix(original)
    /\ ~InDenylist(original)

\* a record of purge_bad_votes after its votes are filtered
PurgedInfo(info) ==
    recalculate_best(
        [info EXCEPT !.votes = SelectSeq(@, LAMBDA v : KeepsVote(v.english))])

\* a faulty purge_bad_votes, which keeps the records left without votes
purge_bad_votes_KeepsEmpty(ns) ==
    LET kept == {o \in DOMAIN ns : KeepsOriginal(o)}
    IN  [o \in kept |-> PurgedInfo(ns[o])]

\* NameMappingStore::purge_bad_votes on the map `names`
purge_bad_votes(ns) ==
    LET kept == {o \in DOMAIN ns :
                    KeepsOriginal(o) /\ PurgedInfo(ns[o]).votes # <<>>}
    IN  [o \in kept |-> PurgedInfo(ns[o])]

Range(s) ==
    {s[i] : i \in 1..Len(s)}

\* <[u32]>::sort_unstable
RECURSIVE sort_unstable(_)
sort_unstable(s) ==
    IF s = <<>>
    THEN <<>>
    ELSE LET m == CHOOSE x \in Range(s) : \A y \in Range(s) : x <= y
             i == CHOOSE j \in 1..Len(s) : s[j] = m
         IN  <<m>> \o sort_unstable(SubSeq(s, 1, i - 1) \o SubSeq(s, i + 1, Len(s)))

\* NameMappingStore::add_coverage on the list `coverage`
add_coverage(cov, chapters) ==
    LET coverage_set == Range(cov)
        pushed == SelectSeq(chapters, LAMBDA c : c \notin coverage_set)
    IN  sort_unstable(cov \o pushed)

\* a faulty is_chapter_covered, for which no chapter is covered
is_chapter_covered_Never(cov, chapter_number) ==
    FALSE

\* NameMappingStore::is_chapter_covered
is_chapter_covered(cov, chapter_number) ==
    chapter_number \in Range(cov)

----------------------------------------------------------------------------
(* The persisted file *)

\* #[serde(rename_all = "lowercase")] on NamePart
PartToJson(part) ==
    CASE part = "Family" -> "family"
      [] part = "Given" -> "given"
      [] part = "Unknown" -> "unknown"

JsonParts ==
    {"family", "given", "unknown"}

PartFromJson(s) ==
    CASE s = "family" -> "Family"
      [] s = "given" -> "Given"
      [] s = "unknown" -> "Unknown"

\* Serialize for NameInfo: a JSON object as a function of its field names;
\* english and count are skipped when None; votes is a JSON object from
\* rendering to count
SerializeInfo(info) ==
    [f \in {"part", "votes"}
           \cup (IF info.english # <<>> THEN {"english"} ELSE {})
           \cup (IF info.count # <<>> THEN {"count"} ELSE {}) |->
        CASE f = "part" -> PartToJson(info.part)
          [] f = "votes" -> [e \in VoteKeys(info.votes) |->
                                VoteCount(info.votes, e)]
          [] f = "english" -> info.english[1]
          [] f = "count" -> info.count[1]]

\* serde_json::to_string_pretty(&self.data)
Serialize(ns, cov) ==
    [names |-> [o \in DOMAIN ns |-> SerializeInfo(ns[o])], coverage |-> cov]

\* the sequences that list every element of S once
RECURSIVE Orders(_)
Orders(S) ==
    IF S = {}
    THEN {<<>>}
    ELSE UNION {{<<x>> \o rest : rest \in Orders(S \ {x})} : x \in S}

\* Deserialize for NameInfo accepts the object: part and votes are
\* required, part is one of the three lower-case names
IsNameInfoJson(obj) ==
    /\ {"part", "votes"} \subseteq DOMAIN obj
    /\ obj["part"] \in JsonParts

\* Deserialize for NameInfo: an absent english or count is None; the votes
\* land in a fresh HashMap, in any iteration order
DeserializeInfo(obj) ==
    {[part |-> PartFromJson(obj["part"]),
      votes |-> [i \in 1..Len(order) |->
                    [english |-> order[i], count |-> obj["votes"][order[i]]]],
      english |-> IF "english" \in DOMAIN obj THEN <<obj["english"]>> ELSE <<>>,
      count |-> IF "count" \in DOMAIN obj THEN <<obj["count"]>> ELSE <<>>] :
        order \in Orders(DOMAIN obj["votes"])}

\* serde_json::from_str succeeds on the content
IsParseable(file) ==
    /\ file.kind = "json"
    /\ \A o \in DOMAIN file.data.names : IsNameInfoJson(file.data.names[o])

\* serde_json::from_str::<NameMappingData> : the values the content can
\* deserialize to
Deserialize(json) ==
    LET infos == UNION {DeserializeInfo(json.names[o]) : o \in DOMAIN json.names}
    IN  {[names |-> ns, coverage |-> json.coverage] :
            ns \in {m \in [DOMAIN json.names -> infos] :
                       \A o \in DOMAIN json.names :
                           m[o] \in DeserializeInfo(json.names[o])}}

NoFile ==
    [kind |-> "missing", data |-> <<>>]

\* a file whose content is not a serialized NameMappingData
Garbage ==
    [kind |-> "garbage", data |-> <<>>]

JsonFile(json) ==
    [kind |-> "json", data |-> json]

----------------------------------------------------------------------------
(* apply_to_text *)

\* str::replace : the non-overlapping matches of `from`, found left to
\* right, are replaced by `to`; the empty pattern matches before every
\* character and at the end
RECURSIVE Replace(_, _, _)
Replace(s, from, to) ==
    IF s = <<>>
    THEN IF from = <<>> THEN to ELSE <<>>
    ELSE IF from = <<>>
    THEN to \o <<Head(s)>> \o Replace(Tail(s), from, to)
    ELSE IF MatchesAt(s, from, 1)
    THEN to \o Replace(SubSeq(s, Len(from) + 1, Len(s)), from, to)
    ELSE <<Head(s)>> \o Replace(Tail(s), from, to)

\* the originals that have a best rendering
MappedOriginals(ns) ==
    {o \in DOMAIN ns : ns[o].english # <<>>}

\* `replacements` after the stable sort by byte length, longest first: the
\* pairs arrive in the iteration order of the map `names`, which is any
\* order, so originals of one length keep any order
ReplacementOrders(ns) ==
    {order \in Orders(MappedOriginals(ns)) :
        \A i, j \in 1..Len(order) :
            i < j => ByteLen(order[i]) >= ByteLen(order[j])}

\* the loop `result = result.replace(original, english)`
RECURSIVE ApplyReplacements(_, _, _)
ApplyReplacements(ns, order, s) ==
    IF order = <<>>
    THEN s
    ELSE ApplyReplacements(ns, Tail(order),
                           Replace(s, Head(order), ns[Head(order)].english[1]))

\* NameMappingStore::apply_to_text : the strings it can return
apply_to_text(ns, s) ==
    {ApplyReplacements(ns, order, s) : order \in ReplacementOrders(ns)}

----------------------------------------------------------------------------
(* The inputs of the model *)

\* U+7530 U+4E2D, a family name, and its renderings
OTanaka ==
    <<"u7530", "u4E2D">>

ETanaka ==
    <<"T", "a", "n", "a", "k", "a">>

\* U+7530, a name that is a proper substring of OTanaka, and its rendering
OTa ==
    <<"u7530">>

ETa ==
    <<"T", "a">>

Entry(original, english, part) ==
    [original |-> original, english |-> english, part |-> part]

\* entries that pass every rule of record_votes
ValidEntries ==
    {Entry(OTanaka, ETanaka, "Family"), Entry(OTanaka, ETanaka, "Unknown"),
     Entry(OTanaka, ETa, "Given"), Entry(OTanaka, ETa, "Unknown")}

\* one entry for each way an entry can break a rule: empty original, empty
\* english, white space in the original, a separator (U+30FB) in the
\* original, a pronoun of the denylist (U+5F7C U+5973), an honorific suffix
\* (U+3055 U+3093) on the original, an English honorific in mixed case,
\* white space in the english
InvalidEntrySeq ==
    <<Entry(<<>>, ETanaka, "Family"),
      Entry(OTanaka, <<>>, "Family"),
      Entry(<<"u7530", " ", "u4E2D">>, ETanaka, "Unknown"),
      Entry(<<"u7530", "u30FB", "u4E2D">>, ETanaka, "Unknown"),
      Entry(<<"u5F7C", "u5973">>, ETanaka, "Unknown"),
      Entry(OTanaka \o <<"u3055", "u3093">>, ETanaka, "Family"),
      Entry(OTanaka, ETa \o <<"-", "S", "a", "n">>, "Family"),
      Entry(OTanaka, ETa \o <<" ">> \o ETa, "Family")>>

InvalidEntries ==
    Range(InvalidEntrySeq)

\* the argument lists of record_votes: one entry of any kind; two entries
\* that pass; two entries that break different rules; an entry that passes
\* before or after an entry that breaks a rule
EntryLists ==
    {<<e>> : e \in ValidEntries \cup InvalidEntries}
    \cup {<<e, f>> : e, f \in ValidEntries}
    \cup {<<InvalidEntrySeq[p[1]], InvalidEntrySeq[p[2]]>> :
              p \in {q \in (1..Len(InvalidEntrySeq)) \X (1..Len(InvalidEntrySeq)) :
                        q[1] < q[2]}}
    \cup UNION {{<<Entry(OTanaka, ETanaka, "Family"), f>>,
                 <<f, Entry(OTanaka, ETanaka, "Family")>>} :
                    f \in InvalidEntries}

\* the argument lists of record_votes where the file is modelled too
StoreEntryLists ==
    {<<Entry(OTanaka, ETanaka, "Family")>>, <<Entry(OTanaka, ETa, "Unknown")>>}

\* run_name_scout adds one chapter at a time
SingleChapterLists ==
    {<<n>> : n \in 1..MaxChapter}

\* the argument lists of add_coverage taken alone: every list of at most
\* MaxListLen chapter numbers, a number repeated or not
ChapterLists ==
    UNION {[1..n -> 1..MaxChapter] : n \in 0..MaxListLen}

----------------------------------------------------------------------------
(* The state *)

VARIABLES
    names,      \* NameMappingStore.data.names
    coverage,   \* NameMappingStore.data.coverage
    disk,       \* the file at NameMappingStore.filepath
    call,       \* the last operation: its name, arguments and whether it
                \* returned Ok
    text,       \* the argument of apply_to_text
    result,     \* what apply_to_text returned: <<>> before the call
    translation_config,
                \* Translator.translation_config
    input,      \* the arguments of translate: text and is_title
    pc,         \* where translate stands: "idle" before a call, "title" and
                \* "while" before a request, "break" after a successful
                \* one, "join" after the last chunk, "done" once returned
    chunks,     \* translate: the chunks of the text
    chunk_num,  \* translate: the number of the chunk at hand, from 1
    attempt,    \* translate: the failed attempts on this chunk
    last_error, \* translate: Option<TranslationError>
    results,    \* translate: the segments so far
    history,    \* translate: the conversation history
    translated, \* what translate returned: <<>> before it returns
    requests,   \* the requests of this call of translate that reached the
                \* API, each with its messages and what came of it
    stream,     \* what the last request met, as an Option: the events the
                \* server sent and the network reads they arrived in
    scout_pc,   \* where run_name_scout stands: "idle" before the call,
                \* then before collect_names ("collect"), record_votes
                \* ("record"), the save after it ("save_votes"),
                \* add_coverage ("cover"), the save after it
                \* ("save_coverage"), and "returned"
    uncovered,  \* run_name_scout: the chapters still to scout
    name_chunks,
                \* run_name_scout: the entry lists still to record
    scouted,    \* what run_name_scout returned: <<>> before it returns
    chunker_input,
                \* the arguments of a chunker: text and chunk_size
    chunker_output,
                \* what the chunker returned, as an Option: which chunker
                \* it was and its chunks
    scout_config,
                \* NameScout.scout_config
    payload,    \* the argument of collect_names
    collect_pc, \* where collect_names stands: "idle" before a call,
                \* "while" at the test of the retry loop, "return" after
                \* the last chunk, "done" once returned
    scout_chunks,
                \* collect_names: chunks
    scout_chunk_num,
                \* collect_names: chunk_num, from 1
    scout_attempt,
                \* collect_names: attempt
    success,    \* collect_names: success
    scout_results,
                \* collect_names: results
    model_calls,
                \* the calls of call_model of this call of collect_names:
                \* the chunk number, what came back, the seconds slept
                \* after it
    collected,  \* what collect_names returned, as an Option
    scout_chapters,
                \* run_name_scout: chapters, by their numbers
    parse_input,
                \* parse_response: raw
    parse_output,
                \* what parse_response returned, as an Option
    main_pc,    \* where main is
    oneshot,    \* the novel is a oneshot (process_oneshot), or has
                \* chapters (process_chapters)
    translating,
                \* process_chapters, translation phase: the chapters that
                \* are left to translate
    handed      \* the calls of translator.translate main has made: what
                \* the text is, the text handed over, is_title

storeVars ==
    <<names, coverage, disk, call>>

applyVars ==
    <<text, result>>

translateVars ==
    <<translation_config, input, pc, chunks, chunk_num, attempt, last_error,
      results, history, translated, requests, stream>>

scoutVars ==
    <<scout_pc, uncovered, name_chunks, scouted, scout_chapters>>

chunkerVars ==
    <<chunker_input, chunker_output>>

collectVars ==
    <<scout_config, payload, collect_pc, scout_chunks, scout_chunk_num,
      scout_attempt, success, scout_results, model_calls, collected>>

parseVars ==
    <<parse_input, parse_output>>

mainVars ==
    <<main_pc, oneshot, translating, handed>>

vars ==
    <<names, coverage, disk, call, text, result, translation_config, input,
      pc, chunks, chunk_num, attempt, last_error, results, history,
      translated, requests, stream, scout_pc, uncovered, name_chunks,
      scouted, chunker_input, chunker_output, scout_config, payload,
      collect_pc, scout_chunks, scout_chunk_num, scout_attempt, success,
      scout_results, model_calls, collected, scout_chapters, parse_input,
      parse_output, main_pc, oneshot, translating, handed>>

Call(op, entries, chapters, ok) ==
    [op |-> op, entries |-> entries, chapters |-> chapters, ok |-> ok]

\* every count of the map is at most MaxVotes
WithinMaxVotes(ns) ==
    \A o \in DOMAIN ns :
        \A i \in 1..Len(ns[o].votes) : ns[o].votes[i].count <= MaxVotes

\* TranslationConfig
TranslationConfig(retries, history_length, chunk_size_chars) ==
    [retries |-> retries, history_length |-> history_length,
     chunk_size_chars |-> chunk_size_chars]

\* a Translator with the default configuration, on which translate has not
\* been called
TranslatorIdle ==
    /\ translation_config =
          TranslationConfig(DefaultRetries, DefaultHistoryLength,
                            DefaultChunkSizeChars)
    /\ input = [text |-> <<>>, is_title |-> FALSE]
    /\ pc = "idle"
    /\ chunks = <<>>
    /\ chunk_num = 1
    /\ attempt = 0
    /\ last_error = <<>>
    /\ results = <<>>
    /\ history = <<>>
    /\ translated = <<>>
    /\ requests = <<>>
    /\ stream = <<>>

\* run_name_scout has not been called
ScoutIdle ==
    /\ scout_pc = "idle"
    /\ uncovered = <<>>
    /\ name_chunks = <<>>
    /\ scouted = <<>>
    /\ scout_chapters = <<>>

\* no chunker has been called
ChunkerIdle ==
    /\ chunker_input = [text |-> <<>>, chunk_size |-> DefaultChunkSizeChars]
    /\ chunker_output = <<>>

\* NameScoutConfig
NameScoutConfig(json_retries, chunk_size_chars) ==
    [json_retries |-> json_retries, chunk_size_chars |-> chunk_size_chars]

\* a NameScout with the default configuration, on which collect_names has
\* not been called
CollectIdle ==
    /\ scout_config =
          NameScoutConfig(DefaultJsonRetries, DefaultScoutChunkSizeChars)
    /\ payload = <<>>
    /\ collect_pc = "idle"
    /\ scout_chunks = <<>>
    /\ scout_chunk_num = 1
    /\ scout_attempt = 0
    /\ success = FALSE
    /\ scout_results = <<>>
    /\ model_calls = <<>>
    /\ collected = <<>>

\* parse_response has not been called
ParseIdle ==
    /\ parse_input = <<>>
    /\ parse_output = <<>>

\* main has not begun to process the novel
MainIdle ==
    /\ main_pc = "idle"
    /\ oneshot = FALSE
    /\ translating = <<>>
    /\ handed = <<>>

----------------------------------------------------------------------------
(* The operations *)

\* a faulty reload_from_disk, which empties the data before it reads the
\* file
reload_from_disk_ClearsFirst(ns, cov, file) ==
    IF ~IsParseable(file)
    THEN {[names |-> <<>>, coverage |-> <<>>, ok |-> FALSE]}
    ELSE {[names |-> purge_bad_votes(d.names), coverage |-> d.coverage,
           ok |-> TRUE] : d \in Deserialize(file.data)}

\* NameMappingStore::reload_from_disk : the outcomes on the given file, as
\* (names, coverage, ok); it returns at the first `?` when the file cannot
\* be read or parsed
reload_from_disk(ns, cov, file) ==
    IF ~IsParseable(file)
    THEN {[names |-> ns, coverage |-> cov, ok |-> FALSE]}
    ELSE {[names |-> purge_bad_votes(d.names), coverage |-> d.coverage,
           ok |-> TRUE] : d \in Deserialize(file.data)}

\* NameMappingStore::new : the outcomes on the given file; when it returns
\* Err there is no new store and the variables keep the store there was
new(ns, cov, file) ==
    IF file.kind = "missing"
    THEN {[names |-> purge_bad_votes(<<>>), coverage |-> <<>>, ok |-> TRUE]}
    ELSE {[r EXCEPT !.names = IF r.ok THEN purge_bad_votes(@) ELSE @] :
             r \in reload_from_disk(ns, cov, file)}

New ==
    /\ \E r \in new(names, coverage, disk) :
          /\ names' = r.names
          /\ coverage' = r.coverage
          /\ call' = Call("new", <<>>, <<>>, r.ok)
    /\ UNCHANGED <<disk, applyVars, translateVars, scoutVars, chunkerVars,
                   collectVars, parseVars, mainVars>>

RecordVotes(lists) ==
    /\ \E entries \in lists :
          \E ns \in record_votes(names, entries) :
              /\ WithinMaxVotes(ns)
              /\ names' = ns
              /\ call' = Call("record_votes", entries, <<>>, TRUE)
    /\ UNCHANGED <<coverage, disk, applyVars, translateVars, scoutVars,
                   chunkerVars, collectVars, parseVars, mainVars>>

PurgeBadVotes ==
    /\ names' = purge_bad_votes(names)
    /\ call' = Call("purge_bad_votes", <<>>, <<>>, TRUE)
    /\ UNCHANGED <<coverage, disk, applyVars, translateVars, scoutVars,
                   chunkerVars, collectVars, parseVars, mainVars>>

AddCoverage(lists) ==
    /\ \E chapters \in lists :
          /\ coverage' = add_coverage(coverage, chapters)
          /\ call' = Call("add_coverage", <<>>, chapters, TRUE)
    /\ UNCHANGED <<names, disk, applyVars, translateVars, scoutVars,
                   chunkerVars, collectVars, parseVars, mainVars>>

\* NameMappingStore::save
Save ==
    /\ disk' = JsonFile(Serialize(names, coverage))
    /\ call' = Call("save", <<>>, <<>>, TRUE)
    /\ UNCHANGED <<names, coverage, applyVars, translateVars, scoutVars,
                   chunkerVars, collectVars, parseVars, mainVars>>

ReloadFromDisk ==
    /\ \E r \in reload_from_disk(names, coverage, disk) :
          /\ names' = r.names
          /\ coverage' = r.coverage
          /\ call' = Call("reload_from_disk", <<>>, <<>>, r.ok)
    /\ UNCHANGED <<disk, applyVars, translateVars, scoutVars, chunkerVars,
                   collectVars, parseVars, mainVars>>

----------------------------------------------------------------------------
(* The store and its file *)

\* a store constructed where there is no file
Init ==
    /\ names = <<>>
    /\ coverage = <<>>
    /\ disk = NoFile
    /\ call = Call("new", <<>>, <<>>, TRUE)
    /\ text = <<>>
    /\ result = <<>>
    /\ TranslatorIdle
    /\ ScoutIdle
    /\ ChunkerIdle
    /\ CollectIdle
    /\ ParseIdle
    /\ MainIdle

Next ==
    \/ New
    \/ RecordVotes(StoreEntryLists)
    \/ PurgeBadVotes
    \/ AddCoverage(SingleChapterLists)
    \/ Save
    \/ ReloadFromDisk

Spec ==
    Init /\ [][Next]_vars

----------------------------------------------------------------------------
(* add_coverage alone, on every argument list *)

NextCoverage ==
    AddCoverage(ChapterLists)

SpecCoverage ==
    Init /\ [][NextCoverage]_vars

----------------------------------------------------------------------------
(* record_votes and purge_bad_votes alone, on every kind of entry *)

NextVotes ==
    \/ RecordVotes(EntryLists)
    \/ PurgeBadVotes

SpecVotes ==
    Init /\ [][NextVotes]_vars

----------------------------------------------------------------------------
(* The file under manual review: any content can be put in its place *)

\* a rendering that purge_bad_votes rejects: "Ta san"
ETaSan ==
    ETa \o <<" ", "s", "a", "n">>

\* a JSON object with the given keys and values
Object(keys, values) ==
    [k \in Range(keys) |-> values[CHOOSE i \in 1..Len(keys) : keys[i] = k]]

\* the votes objects of the edited files: no vote, a count of zero, a tie,
\* a rendering that the rules reject alone and beside a good one, two
\* counts of zero
EditedVotes ==
    {<<>>,
     Object(<<ETanaka>>, <<0>>),
     Object(<<ETanaka, ETa>>, <<1, 1>>),
     Object(<<ETaSan>>, <<1>>),
     Object(<<ETanaka, ETaSan>>, <<1, 1>>),
     Object(<<ETanaka, ETa>>, <<0, 0>>)}

\* the NameInfo objects of the edited files: english and count are absent,
\* or name a rendering that may have no vote
EditedInfos ==
    {Object(<<"part", "votes">>, <<"unknown", v>>) : v \in EditedVotes}
    \cup {Object(<<"part", "votes", "english", "count">>,
                 <<"given", v, e, 1>>) :
              v \in EditedVotes, e \in {ETa, ETaSan}}

\* files that deserialize: one record under a good key; a record under a
\* key with an honorific suffix; a record under the empty key; no record
\* and a coverage list out of order, with a repetition
ParseableEdits ==
    {[names |-> Object(<<OTanaka>>, <<info>>), coverage |-> <<>>] :
        info \in EditedInfos}
    \cup {[names |-> Object(<<original>>,
                            <<Object(<<"part", "votes">>,
                                     <<"family", Object(<<ETanaka>>, <<1>>)>>)>>),
           coverage |-> <<>>] :
              original \in {OTanaka \o <<"u3055", "u3093">>, <<>>}}
    \cup {[names |-> <<>>, coverage |-> <<MaxChapter, 1, 1>>]}

\* JSON that does not deserialize: a record without votes, a part that is
\* not a variant of NamePart
UnparseableEdits ==
    {[names |-> Object(<<OTanaka>>, <<Object(<<"part">>, <<"unknown">>)>>),
      coverage |-> <<>>],
     [names |-> Object(<<OTanaka>>,
                       <<Object(<<"part", "votes">>, <<"surname", <<>>>>)>>),
      coverage |-> <<>>]}

EditedFiles ==
    {NoFile, Garbage}
    \cup {JsonFile(json) : json \in ParseableEdits \cup UnparseableEdits}

\* manual_name_review leaves the file to an editor
ExternalEdit ==
    /\ disk' \in EditedFiles
    /\ call' = Call("edit", <<>>, <<>>, TRUE)
    /\ UNCHANGED <<names, coverage, applyVars, translateVars, scoutVars,
                   chunkerVars, collectVars, parseVars, mainVars>>

NextReview ==
    \/ New
    \/ RecordVotes(StoreEntryLists)
    \/ PurgeBadVotes
    \/ Save
    \/ ReloadFromDisk
    \/ ExternalEdit

SpecReview ==
    Init /\ [][NextReview]_vars

----------------------------------------------------------------------------
(* apply_to_text on the stores record_votes builds *)

\* a name written with a Latin letter, and its rendering
OLatin == <<"a">>
ELatin == <<"A">>

\* the entries of these stores: the two names with their renderings, the
\* longer name with itself as rendering, and the Latin-letter name (each
\* passes every rule)
ApplyEntries ==
    {Entry(OTanaka, ETanaka, "Family"), Entry(OTa, ETa, "Unknown"),
     Entry(OTanaka, OTanaka, "Family"), Entry(OLatin, ELatin, "Unknown")}

\* the stores that one call of record_votes on a new store can build
ApplyStores ==
    UNION {record_votes(<<>>, entries) :
              entries \in {<<>>} \cup {<<e>> : e \in ApplyEntries}
                          \cup {<<e, f>> : e, f \in ApplyEntries}}

\* the characters of the texts: the two of OTanaka, and U+3055
TextChars ==
    {"u7530", "u4E2D", "u3055"}

Texts ==
    UNION {[1..n -> TextChars] : n \in 0..MaxTextLen}

InitApply ==
    /\ names \in ApplyStores
    /\ coverage = <<>>
    /\ disk = NoFile
    /\ call = Call("record_votes", <<>>, <<>>, TRUE)
    /\ text = <<>>
    /\ result = <<>>
    /\ TranslatorIdle
    /\ ScoutIdle
    /\ ChunkerIdle
    /\ CollectIdle
    /\ ParseIdle
    /\ MainIdle

ApplyToText ==
    /\ \E t \in Texts :
          /\ text' = t
          /\ \E r \in apply_to_text(names, t) : result' = <<r>>
    /\ call' = Call("apply_to_text", <<>>, <<>>, TRUE)
    /\ UNCHANGED <<names, coverage, disk, translateVars, scoutVars,
                   chunkerVars, collectVars, parseVars, mainVars>>

NextApply ==
    ApplyToText

SpecApply ==
    InitApply /\ [][NextApply]_vars

----------------------------------------------------------------------------
(* Translator: strings *)

LF == "u000A"

CR == "u000D"

\* str::trim_start
RECURSIVE trim_start(_)
trim_start(s) ==
    IF s # <<>> /\ Head(s) \in Whitespace THEN trim_start(Tail(s)) ELSE s

\* str::trim_end
RECURSIVE trim_end(_)
trim_end(s) ==
    IF s # <<>> /\ s[Len(s)] \in Whitespace
    THEN trim_end(SubSeq(s, 1, Len(s) - 1))
    ELSE s

\* str::trim
trim(s) ==
    trim_end(trim_start(s))

\* a faulty prefix test, which finds the pattern anywhere in the string
starts_with_Anywhere(s, pat) ==
    Contains(s, pat)

\* str::starts_with
starts_with(s, pat) ==
    MatchesAt(s, pat, 1)

\* [String]::join
RECURSIVE join(_, _)
join(parts, sep) ==
    IF parts = <<>>
    THEN <<>>
    ELSE IF Len(parts) = 1
         THEN parts[1]
         ELSE parts[1] \o sep \o join(Tail(parts), sep)

\* the line without the carriage return that precedes its line feed
StripCR(line) ==
    IF line # <<>> /\ line[Len(line)] = CR
    THEN SubSeq(line, 1, Len(line) - 1)
    ELSE line

\* str::lines from position i on, `current` being the line read so far: a
\* line ends at a line feed, and a last line without one is kept as it is
RECURSIVE LinesFrom(_, _, _)
LinesFrom(s, i, current) ==
    IF i > Len(s)
    THEN IF current = <<>> THEN <<>> ELSE <<current>>
    ELSE IF s[i] = LF
         THEN <<StripCR(current)>> \o LinesFrom(s, i + 1, <<>>)
         ELSE LinesFrom(s, i + 1, Append(current, s[i]))

\* str::lines
lines(s) ==
    LinesFrom(s, 1, <<>>)

\* str::split_whitespace from position i on
RECURSIVE WordsFrom(_, _, _)
WordsFrom(s, i, current) ==
    IF i > Len(s)
    THEN IF current = <<>> THEN <<>> ELSE <<current>>
    ELSE IF s[i] \in Whitespace
         THEN (IF current = <<>> THEN <<>> ELSE <<current>>)
                  \o WordsFrom(s, i + 1, <<>>)
         ELSE WordsFrom(s, i + 1, Append(current, s[i]))

\* str::split_whitespace
split_whitespace(s) ==
    WordsFrom(s, 1, <<>>)

----------------------------------------------------------------------------
(* Translator: chunks *)

\* a faulty packing, which does not count the separator
RECURSIVE Pack_NoSeparator(_, _, _, _, _, _)
Pack_NoSeparator(pieces, sep, chunk_size, out, current_chunk, current_size) ==
    IF pieces = <<>>
    THEN IF current_chunk # <<>>
         THEN Append(out, join(current_chunk, sep))
         ELSE out
    ELSE LET piece == Head(pieces)
             piece_size == ByteLen(piece)
         IN  IF current_size + piece_size > chunk_size /\ current_chunk # <<>>
             THEN Pack_NoSeparator(Tail(pieces), sep, chunk_size,
                                   Append(out, join(current_chunk, sep)),
                                   <<piece>>, ByteLen(piece))
             ELSE Pack_NoSeparator(Tail(pieces), sep, chunk_size, out,
                                   Append(current_chunk, piece),
                                   current_size + piece_size)

\* the two packing loops of split_text_into_chunks (over lines joined by a
\* line feed, over words joined by a space): the pieces go into
\* current_chunk until the next one would pass chunk_size
RECURSIVE Pack(_, _, _, _, _, _)
Pack(pieces, sep, chunk_size, out, current_chunk, current_size) ==
    IF pieces = <<>>
    THEN IF current_chunk # <<>>
         THEN Append(out, join(current_chunk, sep))
         ELSE out
    ELSE LET piece == Head(pieces)
             piece_size == ByteLen(piece)
                             + (IF current_chunk = <<>> THEN 0 ELSE 1)
         IN  IF current_size + piece_size > chunk_size /\ current_chunk # <<>>
             THEN Pack(Tail(pieces), sep, chunk_size,
                       Append(out, join(current_chunk, sep)),
                       <<piece>>, ByteLen(piece))
             ELSE Pack(Tail(pieces), sep, chunk_size, out,
                       Append(current_chunk, piece),
                       current_size + piece_size)

\* a faulty phase 2, which keeps the chunks of phase 1
FinalChunks_NoWordPass(cs, chunk_size) ==
    cs

\* phase 2 of split_text_into_chunks: a chunk over the size is split again
\* at white space
RECURSIVE FinalChunks(_, _)
FinalChunks(cs, chunk_size) ==
    IF cs = <<>>
    THEN <<>>
    ELSE (IF ByteLen(Head(cs)) <= chunk_size
          THEN <<Head(cs)>>
          ELSE Pack(split_whitespace(Head(cs)), <<" ">>, chunk_size,
                    <<>>, <<>>, 0))
         \o FinalChunks(Tail(cs), chunk_size)

\* Translator::split_text_into_chunks
split_text_into_chunks(s, chunk_size) ==
    FinalChunks(Pack(lines(s), <<LF>>, chunk_size, <<>>, <<>>, 0), chunk_size)

----------------------------------------------------------------------------
(* Translator: one request *)

REFUSAL_PHRASES ==
    {<<"i", "'", "m", " ", "s", "o", "r", "r", "y">>,
     <<"i", " ", "c", "a", "n", "n", "o", "t">>,
     <<"i", " ", "a", "m", " ", "u", "n", "a", "b", "l", "e">>,
     <<"a", "s", " ", "a", "n", " ", "a", "i">>,
     <<"m", "y", " ", "a", "p", "o", "l", "o", "g", "i", "e", "s">>,
     <<"i", " ", "a", "m", " ", "n", "o", "t", " ", "p", "r", "o", "g", "r",
       "a", "m", "m", "e", "d">>,
     <<"i", " ", "d", "o", " ", "n", "o", "t", " ", "h", "a", "v", "e", " ",
       "t", "h", "e", " ", "a", "b", "i", "l", "i", "t", "y">>}

\* Message
Message(role, content) ==
    [role |-> role, content |-> content]

\* the system prompts of the Translator
title_prompt == <<"T">>

content_prompt == <<"C">>

\* an event of the stream the server sends: a StreamChunk whose delta has
\* the content, or the [DONE] sentinel
Delta(content) ==
    [kind |-> "delta", content |-> content]

Done ==
    [kind |-> "done", content |-> <<>>]

\* the text of an event on the wire, in tokens: the prefix "data: ", then
\* the JSON of the StreamChunk ("{", the characters of the content, "}") or
\* "[DONE]", then the blank line that ends the event
EventText(event) ==
    IF event.kind = "done"
    THEN <<"data: ", "[DONE]", LF, LF>>
    ELSE <<"data: ", "{">> \o event.content \o <<"}", LF, LF>>

RECURSIVE StreamText(_)
StreamText(events) ==
    IF events = <<>>
    THEN <<>>
    ELSE EventText(Head(events)) \o StreamText(Tail(events))

\* what a request meets: send fails ("HttpError"), the status is not 2xx
\* ("ApiError"), the server sends the events and they arrive in the
\* network reads until the stream ends ("stream") or fails ("broken")
Outcome(kind, events, reads) ==
    [kind |-> kind, events |-> events, reads |-> reads]

\* serde_json::from_str::<StreamChunk>(data) and the content of its delta,
\* as an Option: only the whole JSON of a StreamChunk parses
DeltaContent(data) ==
    LET d == trim(data)
    IN  IF /\ Len(d) >= 2
           /\ d[1] = "{"
           /\ d[Len(d)] = "}"
           /\ \A i \in 2..(Len(d) - 1) :
                  d[i] \notin {"{", "}", "data: ", "[DONE]"}
        THEN <<SubSeq(d, 2, Len(d) - 1)>>
        ELSE <<>>

\* translate_single_chunk, "Parse SSE data lines": full_response after the
\* lines of one network read; [DONE] leaves the loop over these lines
RECURSIVE AggregateLines(_, _)
AggregateLines(ls, full_response) ==
    IF ls = <<>>
    THEN full_response
    ELSE LET line == Head(ls)
         IN  IF line # <<>> /\ Head(line) = "data: "
             THEN LET data == Tail(line)
                  IN  IF trim(data) = <<"[DONE]">>
                      THEN full_response
                      ELSE AggregateLines(
                               Tail(ls),
                               IF DeltaContent(data) # <<>>
                               THEN full_response \o DeltaContent(data)[1]
                               ELSE full_response)
             ELSE AggregateLines(Tail(ls), full_response)

\* translate_single_chunk, "Stream and accumulate response": the loop over
\* stream.next()
RECURSIVE AggregateReads(_, _)
AggregateReads(reads, full_response) ==
    IF reads = <<>>
    THEN full_response
    ELSE AggregateReads(Tail(reads),
                        AggregateLines(lines(Head(reads)), full_response))

\* a faulty trimming of the history, which drains from position zero
TrimHistory_DrainsFromZero(hist, history_length) ==
    LET max_messages == 1 + history_length * 2
    IN  IF Len(hist) > max_messages
        THEN SubSeq(hist, Len(hist) - max_messages + 1, Len(hist))
        ELSE hist

\* translate_single_chunk, "Trim history to configured length":
\* drain(1..1 + remove_count)
TrimHistory(hist, history_length) ==
    LET max_messages == 1 + history_length * 2
    IN  IF Len(hist) > max_messages
        THEN LET remove_count == Len(hist) - max_messages
             IN  <<hist[1]>> \o SubSeq(hist, remove_count + 2, Len(hist))
        ELSE hist

\* a faulty update of the history, which pushes the reply before the
\* request
PushExchange_ReplyFirst(hist, chunk, trimmed) ==
    hist \o <<Message("assistant", trimmed), Message("user", chunk)>>

\* translate_single_chunk, "Update history": the user message with the
\* chunk, then the assistant message with the trimmed response
PushExchange(hist, chunk, trimmed) ==
    hist \o <<Message("user", chunk), Message("assistant", trimmed)>>

\* a faulty request, which pushes the user message to the history itself
HistoryOnError_KeepsRequest(hist, chunk) ==
    Append(hist, Message("user", chunk))

\* translate_single_chunk: the request is built on `history.clone()`, and
\* every error return (`?` on send and on a read of the stream, the status
\* check, the empty check, the refusal check) comes before "Update
\* history": the history after an error
HistoryOnError(hist, chunk) ==
    hist

\* Translator::translate_single_chunk : the messages of the request, the
\* Result and the history after the call
translate_single_chunk(chunk, hist, outcome, history_length) ==
    LET messages == Append(hist, Message("user", chunk))
        full_response == AggregateReads(outcome.reads, <<>>)
        trimmed == trim(full_response)
        lower == to_lowercase(trimmed)
        Err(e) == [messages |-> messages, ok |-> FALSE, value |-> <<>>,
                   error |-> e, history |-> HistoryOnError(hist, chunk)]
    IN  IF outcome.kind \in {"HttpError", "broken"}
        THEN Err("HttpError")
        ELSE IF outcome.kind = "ApiError"
        THEN Err("ApiError")
        ELSE IF trimmed = <<>>
        THEN Err("Refused: Empty response")
        ELSE IF \E phrase \in REFUSAL_PHRASES : starts_with(lower, phrase)
        THEN Err("Refused: Response starts with refusal phrase")
        ELSE [messages |-> messages, ok |-> TRUE, value |-> trimmed,
              error |-> "",
              history |->
                  TrimHistory(PushExchange(hist, chunk, trimmed),
                              history_length)]

----------------------------------------------------------------------------
(* Translator: translate *)

\* the marker of the format string "[TRANSLATION FAILED]\n{}"
FailureMarker ==
    <<"[", "T", "R", "A", "N", "S", "L", "A", "T", "I", "O", "N", " ",
      "F", "A", "I", "L", "E", "D", "]">>

\* a faulty placeholder, which leaves the chunk out
Placeholder_MarkerOnly(chunk) ==
    FailureMarker \o <<LF>>

\* format!("[TRANSLATION FAILED]\n{}", chunk)
Placeholder(chunk) ==
    FailureMarker \o <<LF>> \o chunk

\* the byte offset n falls between two characters of s
IsCharBoundary(s, n) ==
    \E k \in 0..Len(s) : ByteLen(SubSeq(s, 1, k)) = n

\* the title snippet &text[..30] panics when byte 30 is inside a character
SnippetPanics(s) ==
    ByteLen(s) > SnippetBytes /\ ~IsCharBoundary(s, SnippetBytes)

\* the configurations: every retry count and history length of the bounds,
\* chunks of one byte or of MaxChunkSize
TranslationConfigs ==
    {TranslationConfig(r, h, c) :
        r \in 0..MaxRetries, h \in 0..MaxHistory, c \in {1, MaxChunkSize}}

\* a title of more than SnippetBytes bytes in which byte SnippetBytes is
\* inside a character: a one-byte character, then three-byte characters
LongTitle ==
    <<"x">> \o [i \in 1..(SnippetBytes \div 3) |-> "u7530"]

\* the texts given to translate: empty, blank, one line, two and three
\* lines, two words on a line, the long title
TranslateTexts ==
    {<<>>, <<" ", LF>>, <<"x">>, <<"x", LF, "y">>, <<"x", LF, "y", LF, "x">>,
     <<"x", " ", "y">>, LongTitle}

\* the streams the server sends: no event, white space, a refusal in two
\* fragments, a translation in two fragments and the sentinel, a
\* translation between white space, a translation with a refusal phrase
\* after its first word
ServerStreams ==
    {<<>>,
     <<Delta(<<" ">>)>>,
     <<Delta(<<"I", " ", "C", "a">>), Delta(<<"n", "n", "o", "t">>)>>,
     <<Delta(<<"H">>), Delta(<<"i">>), Done>>,
     <<Delta(<<" ", "H", "o", " ">>)>>,
     <<Delta(<<"S", "o", " ", "I", " ", "c", "a", "n", "n", "o", "t">>)>>}

\* the ways a stream arrives: in one network read, or in two, divided
\* anywhere
Divisions(s) ==
    IF s = <<>>
    THEN {<<>>}
    ELSE {<<s>>} \cup {<<SubSeq(s, 1, k), SubSeq(s, k + 1, Len(s))>> :
                          k \in 1..(Len(s) - 1)}

\* the requests that fail before the stream
FailedRequests ==
    {Outcome("HttpError", <<>>, <<>>), Outcome("ApiError", <<>>, <<>>)}

\* the outcomes of a request where each stream arrives in one read; one
\* stream fails after its first read
Outcomes ==
    FailedRequests
        \cup {Outcome("stream", ev,
                      IF ev = <<>> THEN <<>> ELSE <<StreamText(ev)>>) :
                  ev \in ServerStreams}
        \cup {Outcome("broken", <<Delta(<<"H">>)>>,
                      <<StreamText(<<Delta(<<"H">>)>>)>>)}

\* the outcomes of a request where the stream arrives in one or two reads
\* and where it can fail after the first of two reads
DividedOutcomes ==
    FailedRequests
        \cup UNION {{Outcome("stream", ev, reads) :
                        reads \in Divisions(StreamText(ev))} :
                        ev \in ServerStreams}
        \cup UNION {{Outcome("broken", ev, <<reads[1]>>) :
                        reads \in {d \in Divisions(StreamText(ev)) :
                                      Len(d) = 2}} :
                        ev \in ServerStreams}

Ok(value) ==
    [ok |-> TRUE, value |-> value]

\* a faulty backoff, which grows by one second for each failed attempt
Backoff_Linear(k) ==
    k

\* 2u64.pow(attempt), the seconds slept after a failed attempt
Backoff(k) ==
    2 ^ k

\* a request as it is logged: the number of the chunk, the messages sent,
\* the Result, and the seconds slept before the next attempt on the chunk
\* (0 when there is no sleep)
Request(n, r, wait) ==
    [chunk |-> n, messages |-> r.messages, ok |-> r.ok, reply |-> r.value,
     wait |-> wait]

\* the locals of translate after a step
SetLocals(p, cs, n, a, e, rs, h) ==
    /\ pc' = p
    /\ chunks' = cs
    /\ chunk_num' = n
    /\ attempt' = a
    /\ last_error' = e
    /\ results' = rs
    /\ history' = h

\* translate, up to its first request
Translate ==
    /\ pc \in {"idle", "done"}
    /\ \E t \in TranslateTexts, is_title \in BOOLEAN :
          /\ input' = [text |-> t, is_title |-> is_title]
          /\ IF trim(t) = <<>>
             THEN /\ SetLocals("done", <<>>, 1, 0, <<>>, <<>>, <<>>)
                  /\ translated' = <<Ok(<<>>)>>
             ELSE IF is_title
             THEN /\ SetLocals(IF SnippetPanics(t) THEN "panicked" ELSE "title",
                               <<>>, 1, 0, <<>>, <<>>,
                               <<Message("system", title_prompt)>>)
                  /\ translated' = <<>>
             ELSE LET cs == split_text_into_chunks(
                                t, translation_config.chunk_size_chars)
                  IN  /\ SetLocals(IF cs = <<>> THEN "join" ELSE "while",
                                   cs, 1, 0, <<>>, <<>>,
                                   <<Message("system", content_prompt)>>)
                      /\ translated' = <<>>
    /\ requests' = <<>>
    /\ stream' = <<>>
    /\ UNCHANGED <<translation_config, storeVars, applyVars, scoutVars,
                   chunkerVars, collectVars, parseVars, mainVars>>

\* title mode: the one request, and the return of its Result
TitleAttempt(outcomes) ==
    /\ pc = "title"
    /\ \E outcome \in outcomes :
          LET r == translate_single_chunk(input.text, history, outcome,
                                          translation_config.history_length)
          IN  /\ requests' = Append(requests, Request(1, r, 0))
              /\ SetLocals("done", chunks, chunk_num, attempt, last_error,
                           results, r.history)
              /\ translated' = <<[ok |-> r.ok,
                                  value |-> IF r.ok THEN r.value ELSE r.error]>>
              /\ stream' = <<outcome>>
    /\ UNCHANGED <<translation_config, input, storeVars, applyVars, scoutVars,
                   chunkerVars, collectVars, parseVars, mainVars>>

\* content mode: one turn of the retry loop, a request for the chunk at
\* hand; after a failure, "Exponential backoff" when an attempt is left
Attempt(outcomes) ==
    /\ pc = "while"
    /\ attempt < translation_config.retries
    /\ \E outcome \in outcomes :
          LET r == translate_single_chunk(chunks[chunk_num], history, outcome,
                                          translation_config.history_length)
          IN  /\ requests' =
                     Append(requests,
                            Request(chunk_num, r,
                                    IF ~r.ok /\ attempt + 1
                                                  < translation_config.retries
                                    THEN Backoff(attempt + 1)
                                    ELSE 0))
              /\ IF r.ok
                 THEN SetLocals("break", chunks, chunk_num, attempt, <<>>,
                                Append(results, r.value), r.history)
                 ELSE SetLocals("while", chunks, chunk_num, attempt + 1,
                                <<r.error>>, results, r.history)
              /\ stream' = <<outcome>>
    /\ UNCHANGED <<translation_config, input, translated, storeVars,
                   applyVars, scoutVars, chunkerVars, collectVars, parseVars,
                   mainVars>>

\* content mode: the retry loop is left (after a success, or with no
\* attempt left), the placeholder is pushed when last_error is set, and the
\* for loop goes to the next chunk
ExitLoop ==
    /\ \/ pc = "break"
       \/ pc = "while" /\ attempt >= translation_config.retries
    /\ SetLocals(IF chunk_num < Len(chunks) THEN "while" ELSE "join",
                 chunks, chunk_num + 1, 0, <<>>,
                 IF last_error # <<>>
                 THEN Append(results, Placeholder(chunks[chunk_num]))
                 ELSE results,
                 history)
    /\ UNCHANGED <<translation_config, input, translated, requests, stream,
                   storeVars, applyVars, scoutVars, chunkerVars, collectVars,
                   parseVars, mainVars>>

\* content mode: Ok(results.join("\n\n"))
Return ==
    /\ pc = "join"
    /\ translated' = <<Ok(join(results, <<LF, LF>>))>>
    /\ SetLocals("done", chunks, chunk_num, attempt, last_error, results,
                 history)
    /\ UNCHANGED <<translation_config, input, requests, stream, storeVars,
                   applyVars, scoutVars, chunkerVars, collectVars, parseVars,
                   mainVars>>

InitTranslate ==
    /\ names = <<>>
    /\ coverage = <<>>
    /\ disk = NoFile
    /\ call = Call("new", <<>>, <<>>, TRUE)
    /\ text = <<>>
    /\ result = <<>>
    /\ translation_config \in TranslationConfigs
    /\ input = [text |-> <<>>, is_title |-> FALSE]
    /\ pc = "idle"
    /\ chunks = <<>>
    /\ chunk_num = 1
    /\ attempt = 0
    /\ last_error = <<>>
    /\ results = <<>>
    /\ history = <<>>
    /\ translated = <<>>
    /\ requests = <<>>
    /\ stream = <<>>
    /\ ScoutIdle
    /\ ChunkerIdle
    /\ CollectIdle
    /\ ParseIdle
    /\ MainIdle

NextTranslate ==
    \/ Translate
    \/ TitleAttempt(Outcomes)
    \/ Attempt(Outcomes)
    \/ ExitLoop
    \/ Return

SpecTranslate ==
    InitTranslate /\ [][NextTranslate]_vars

----------------------------------------------------------------------------
(* Translator: the stream of a request divided into network reads *)

\* one attempt for each chunk, a history of no pair or of one
StreamConfigs ==
    {TranslationConfig(1, h, MaxChunkSize) : h \in {0, 1}}

InitStream ==
    /\ InitTranslate
    /\ translation_config \in StreamConfigs

NextStream ==
    \/ Translate
    \/ TitleAttempt(DividedOutcomes)
    \/ Attempt(DividedOutcomes)
    \/ ExitLoop
    \/ Return

SpecStream ==
    InitStream /\ [][NextStream]_vars

----------------------------------------------------------------------------
(* run_name_scout on a store loaded from the file of an earlier run *)

\* NameMappingStore::save : what it leaves on disk and whether it returns
\* Ok; when it fails the file is as it was, or cut short
save(ns, cov, file) ==
    {[disk |-> JsonFile(Serialize(ns, cov)), ok |-> TRUE],
     [disk |-> file, ok |-> FALSE],
     [disk |-> Garbage, ok |-> FALSE]}

\* the chapters given to run_name_scout: chapter numbers in ascending
\* order, none twice, or no chapter
ChapterSelections ==
    {cs \in ChapterLists :
        \A i, j \in 1..Len(cs) : i < j => cs[i] < cs[j]}

\* the entry lists collect_names returns for one chunk: those of
\* StoreEntryLists, and one whose entry record_votes rejects (an honorific
\* suffix on the original)
ScoutBatches ==
    StoreEntryLists \cup {<<InvalidEntrySeq[6]>>}

\* what collect_names returns for a chapter: at most two entry lists
NameChunkLists ==
    {<<>>} \cup {<<b>> : b \in ScoutBatches}
           \cup {<<b, c>> : b, c \in ScoutBatches}

\* run_name_scout, up to the first call of collect_names: the chapters
\* that are not covered are kept, and with none left it returns Ok(false)
RunNameScout ==
    /\ scout_pc = "idle"
    /\ \E chapters \in ChapterSelections :
          LET todo == SelectSeq(chapters,
                                LAMBDA n : ~is_chapter_covered(coverage, n))
          IN  /\ scout_chapters' = chapters
              /\ uncovered' = todo
              /\ scout_pc' = IF todo = <<>> THEN "returned" ELSE "collect"
              /\ scouted' = IF todo = <<>> THEN <<Ok(FALSE)>> ELSE <<>>
              /\ call' = Call("is_chapter_covered", <<>>, chapters, TRUE)
    /\ UNCHANGED <<names, coverage, disk, name_chunks, applyVars,
                   translateVars, chunkerVars, collectVars,
                   parseVars, mainVars>>

\* name_scout.collect_names(&payload).await
CollectNames ==
    /\ scout_pc = "collect"
    /\ \E lists \in NameChunkLists :
          /\ name_chunks' = lists
          /\ scout_pc' = IF lists = <<>> THEN "cover" ELSE "record"
    /\ call' = Call("collect_names", <<>>, <<Head(uncovered)>>, TRUE)
    /\ UNCHANGED <<names, coverage, disk, uncovered, scouted, applyVars,
                   translateVars, chunkerVars, collectVars, scout_chapters,
                   parseVars, mainVars>>

\* name_mapping.record_votes(&entries)
ScoutRecordVotes ==
    /\ scout_pc = "record"
    /\ \E ns \in record_votes(names, Head(name_chunks)) :
          /\ WithinMaxVotes(ns)
          /\ names' = ns
    /\ call' = Call("record_votes", Head(name_chunks), <<>>, TRUE)
    /\ scout_pc' = "save_votes"
    /\ UNCHANGED <<coverage, disk, uncovered, name_chunks, scouted, applyVars,
                   translateVars, chunkerVars, collectVars, scout_chapters,
                   parseVars, mainVars>>

\* a faulty loop over the entry lists, which goes on when the save failed
AfterSaveVotes_IgnoresError(ok, rest) ==
    IF rest = <<>> THEN "cover" ELSE "record"

\* `name_mapping.save()?` in the loop over the entry lists of a chapter:
\* the error of save is returned, otherwise the loop goes to the next
\* list, and after the last one to add_coverage
AfterSaveVotes(ok, rest) ==
    IF ~ok
    THEN "returned"
    ELSE IF rest = <<>> THEN "cover" ELSE "record"

\* name_mapping.save()? after record_votes
ScoutSaveVotes ==
    /\ scout_pc = "save_votes"
    /\ \E s \in save(names, coverage, disk) :
          /\ disk' = s.disk
          /\ call' = Call("save", <<>>, <<>>, s.ok)
          /\ scout_pc' = AfterSaveVotes(s.ok, Tail(name_chunks))
          /\ IF s.ok
             THEN /\ name_chunks' = Tail(name_chunks)
                  /\ scouted' = scouted
             ELSE /\ name_chunks' = name_chunks
                  /\ scouted' = <<[ok |-> FALSE, value |-> "WriteError"]>>
    /\ UNCHANGED <<names, coverage, uncovered, applyVars, translateVars,
                   chunkerVars, collectVars, scout_chapters, parseVars,
                   mainVars>>

\* name_mapping.add_coverage(&[*number])
ScoutAddCoverage ==
    /\ scout_pc = "cover"
    /\ coverage' = add_coverage(coverage, <<Head(uncovered)>>)
    /\ call' = Call("add_coverage", <<>>, <<Head(uncovered)>>, TRUE)
    /\ scout_pc' = "save_coverage"
    /\ UNCHANGED <<names, disk, uncovered, name_chunks, scouted, applyVars,
                   translateVars, chunkerVars, collectVars, scout_chapters,
                   parseVars, mainVars>>

\* name_mapping.save()? after add_coverage, and the end of the loop
ScoutSaveCoverage ==
    /\ scout_pc = "save_coverage"
    /\ \E s \in save(names, coverage, disk) :
          /\ disk' = s.disk
          /\ call' = Call("save", <<>>, <<>>, s.ok)
          /\ IF s.ok
             THEN /\ uncovered' = Tail(uncovered)
                  /\ scout_pc' = IF Tail(uncovered) = <<>>
                                 THEN "returned" ELSE "collect"
                  /\ scouted' = IF Tail(uncovered) = <<>>
                                THEN <<Ok(TRUE)>> ELSE <<>>
             ELSE /\ uncovered' = uncovered
                  /\ scout_pc' = "returned"
                  /\ scouted' = <<[ok |-> FALSE, value |-> "WriteError"]>>
    /\ UNCHANGED <<names, coverage, name_chunks, applyVars, translateVars,
                   chunkerVars, collectVars, scout_chapters, parseVars,
                   mainVars>>

\* the next run of the program: main constructs the store from the file,
\* and goes on when NameMappingStore::new returns Ok
NextRun ==
    /\ scout_pc = "returned"
    /\ \E r \in new(names, coverage, disk) :
          /\ r.ok
          /\ names' = r.names
          /\ coverage' = r.coverage
    /\ call' = Call("new", <<>>, <<>>, TRUE)
    /\ scout_pc' = "idle"
    /\ scout_chapters' = <<>>
    /\ uncovered' = <<>>
    /\ name_chunks' = <<>>
    /\ scouted' = <<>>
    /\ UNCHANGED <<disk, applyVars, translateVars, chunkerVars, collectVars, parseVars, mainVars>>

\* main has constructed the store from the file an earlier run and its
\* manual review left
InitScout ==
    /\ disk \in {NoFile} \cup {JsonFile(json) : json \in ParseableEdits}
    /\ \E r \in new(<<>>, <<>>, disk) :
          /\ names = r.names
          /\ coverage = r.coverage
    /\ call = Call("new", <<>>, <<>>, TRUE)
    /\ text = <<>>
    /\ result = <<>>
    /\ TranslatorIdle
    /\ ScoutIdle
    /\ ChunkerIdle
    /\ CollectIdle
    /\ ParseIdle
    /\ MainIdle

NextScout ==
    \/ RunNameScout
    \/ CollectNames
    \/ ScoutRecordVotes
    \/ ScoutSaveVotes
    \/ ScoutAddCoverage
    \/ ScoutSaveCoverage
    \/ NextRun

SpecScout ==
    InitScout /\ [][NextScout]_vars

----------------------------------------------------------------------------
(* The chunkers *)

\* a faulty line chunker, which leaves the empty lines out
split_text_into_line_chunks_SkipsEmptyLines(s, chunk_size) ==
    Pack(SelectSeq(lines(s), LAMBDA line : line # <<>>), <<LF>>, chunk_size,
         <<>>, <<>>, 0)

\* utils::split_text_into_line_chunks : the packing loop of phase 1 of
\* Translator::split_text_into_chunks, over text.lines()
split_text_into_line_chunks(s, chunk_size) ==
    Pack(lines(s), <<LF>>, chunk_size, <<>>, <<>>, 0)

\* NameScout::split_into_chunks : the same loop again, with the chunk size
\* of the scout's configuration
split_into_chunks(s, chunk_size) ==
    Pack(lines(s), <<LF>>, chunk_size, <<>>, <<>>, 0)

\* the characters of the texts given to the chunkers: a one-byte
\* character, a two-byte character, the space and the line feed
ChunkerChars ==
    {"x", "u00B7", " ", LF}

\* the texts of at most n characters
RECURSIVE ChunkerTextsUpTo(_)
ChunkerTextsUpTo(n) ==
    IF n = 0
    THEN {<<>>}
    ELSE LET shorter == ChunkerTextsUpTo(n - 1)
         IN  shorter \cup {Append(t, c) : t \in shorter, c \in ChunkerChars}

ChunkerTexts ==
    ChunkerTextsUpTo(MaxChunkerLen)

\* the chunk sizes: none of the three chunkers is called with a checked
\* size but the Translator's, whose configuration is rejected when
\* chunk_size_chars is zero
ChunkSizes ==
    0..MaxChunkSize

ChunkerCall(chunker, cs) ==
    [chunker |-> chunker, chunks |-> cs]

SplitTextIntoLineChunks ==
    /\ chunker_output = <<>>
    /\ chunker_output' =
           <<ChunkerCall("split_text_into_line_chunks",
                         split_text_into_line_chunks(
                             chunker_input.text, chunker_input.chunk_size))>>
    /\ UNCHANGED <<chunker_input, storeVars, applyVars, translateVars,
                   scoutVars, collectVars, parseVars, mainVars>>

SplitIntoChunks ==
    /\ chunker_output = <<>>
    /\ chunker_output' =
           <<ChunkerCall("split_into_chunks",
                         split_into_chunks(
                             chunker_input.text, chunker_input.chunk_size))>>
    /\ UNCHANGED <<chunker_input, storeVars, applyVars, translateVars,
                   scoutVars, collectVars, parseVars, mainVars>>

SplitTextIntoChunks ==
    /\ chunker_output = <<>>
    /\ chunker_input.chunk_size >= 1
    /\ chunker_output' =
           <<ChunkerCall("split_text_into_chunks",
                         split_text_into_chunks(
                             chunker_input.text, chunker_input.chunk_size))>>
    /\ UNCHANGED <<chunker_input, storeVars, applyVars, translateVars,
                   scoutVars, collectVars, parseVars, mainVars>>

InitChunker ==
    /\ names = <<>>
    /\ coverage = <<>>
    /\ disk = NoFile
    /\ call = Call("new", <<>>, <<>>, TRUE)
    /\ text = <<>>
    /\ result = <<>>
    /\ TranslatorIdle
    /\ ScoutIdle
    /\ CollectIdle
    /\ chunker_input \in
           {[text |-> t, chunk_size |-> n] :
               t \in ChunkerTexts, n \in ChunkSizes}
    /\ chunker_output = <<>>
    /\ ParseIdle
    /\ MainIdle

NextChunker ==
    \/ SplitTextIntoLineChunks
    \/ SplitIntoChunks
    \/ SplitTextIntoChunks

SpecChunker ==
    InitChunker /\ [][NextChunker]_vars

----------------------------------------------------------------------------
(* NameScout: the response parser *)

\* ParsedNameEntry: each field is an Option<String>
ParsedNameEntry(original, english, part) ==
    [original |-> original, english |-> english, part |-> part]

\* the JSON objects of name entries the responses contain; each is one
\* token of the response text
EntryObjects ==
    {"{original:u7530u4E2D,english:Tanaka,part:Family}",
     "{original:u7530,english: Ta }",
     "{original:u7530u4E2D,part:given}",
     "{original: ,english:Ta,part:given}",
     "{english:Ta}",
     "{original:u7530,english: ,part:family}",
     "{original:u7530,english:Ta,part:title}",
     "{original:u7530,english:Ta,part:GIVEN}"}

\* serde_json on the JSON object of a name entry
ParsedEntryOf(object) ==
    CASE object = "{original:u7530u4E2D,english:Tanaka,part:Family}" ->
             ParsedNameEntry(<<OTanaka>>, <<ETanaka>>,
                             <<<<"F", "a", "m", "i", "l", "y">>>>)
      [] object = "{original:u7530,english: Ta }" ->
             ParsedNameEntry(<<OTa>>, <<<<" ">> \o ETa \o <<" ">>>>, <<>>)
      [] object = "{original:u7530u4E2D,part:given}" ->
             ParsedNameEntry(<<OTanaka>>, <<>>, <<<<"g", "i", "v", "e", "n">>>>)
      [] object = "{original: ,english:Ta,part:given}" ->
             ParsedNameEntry(<<<<" ">>>>, <<ETa>>,
                             <<<<"g", "i", "v", "e", "n">>>>)
      [] object = "{english:Ta}" ->
             ParsedNameEntry(<<>>, <<ETa>>, <<>>)
      [] object = "{original:u7530,english: ,part:family}" ->
             ParsedNameEntry(<<OTa>>, <<<<" ">>>>,
                             <<<<"f", "a", "m", "i", "l", "y">>>>)
      [] object = "{original:u7530,english:Ta,part:title}" ->
             ParsedNameEntry(<<OTa>>, <<ETa>>,
                             <<<<"t", "i", "t", "l", "e">>>>)
      [] object = "{original:u7530,english:Ta,part:GIVEN}" ->
             ParsedNameEntry(<<OTa>>, <<ETa>>,
                             <<<<"G", "I", "V", "E", "N">>>>)

\* NamePart::from_str
NamePart_from_str(s) ==
    LET lower == to_lowercase(s)
    IN  IF lower = <<"f", "a", "m", "i", "l", "y">>
        THEN "Family"
        ELSE IF lower = <<"g", "i", "v", "e", "n">>
        THEN "Given"
        ELSE "Unknown"

\* a faulty conversion, which keeps the entries whose fields are blank
ConvertEntry_KeepsBlank(entry) ==
    IF entry.original = <<>> \/ entry.english = <<>>
    THEN <<>>
    ELSE <<Entry(trim(entry.original[1]), trim(entry.english[1]),
                 IF entry.part = <<>>
                 THEN "Unknown"
                 ELSE NamePart_from_str(entry.part[1]))>>

\* the closure of filter_map in parse_response: Some(NameEntry) or None
ConvertEntry(entry) ==
    IF entry.original = <<>> \/ entry.english = <<>>
    THEN <<>>
    ELSE LET original == trim(entry.original[1])
             english == trim(entry.english[1])
         IN  IF original = <<>> \/ english = <<>>
             THEN <<>>
             ELSE <<Entry(original, english,
                          IF entry.part = <<>>
                          THEN "Unknown"
                          ELSE NamePart_from_str(entry.part[1]))>>

\* parsed.names.into_iter().filter_map(..).collect()
RECURSIVE ConvertEntries(_)
ConvertEntries(parsed_names) ==
    IF parsed_names = <<>>
    THEN <<>>
    ELSE ConvertEntry(Head(parsed_names)) \o ConvertEntries(Tail(parsed_names))

\* the tokens of a fence line: the code fence of three backticks, and the
\* letters of "json"
Fence == "[fence]"

JsonTag == <<"j", "s", "o", "n">>

\* s without the letters it starts with
RECURSIVE SkipLetters(_)
SkipLetters(s) ==
    IF s # <<>> /\ (\E k \in 1..26 : Head(s) \in {UpperAscii[k], LowerAscii[k]})
    THEN SkipLetters(Tail(s))
    ELSE s

\* str::trim_start_matches
RECURSIVE trim_start_matches(_, _)
trim_start_matches(s, pat) ==
    IF pat # <<>> /\ starts_with(s, pat)
    THEN trim_start_matches(SubSeq(s, Len(pat) + 1, Len(s)), pat)
    ELSE s

\* str::trim_end_matches
RECURSIVE trim_end_matches(_, _)
trim_end_matches(s, pat) ==
    IF pat # <<>> /\ EndsWith(s, pat)
    THEN trim_end_matches(SubSeq(s, 1, Len(s) - Len(pat)), pat)
    ELSE s

\* parse_response, "Remove markdown code fence if present": group 1 of
\* CODE_FENCE_REGEX when the text ends with a second fence, the manual
\* strip otherwise
StripFence(trimmed) ==
    IF ~starts_with(trimmed, <<Fence>>)
    THEN trimmed
    ELSE IF Len(trimmed) >= 2 /\ trimmed[Len(trimmed)] = Fence
    THEN trim(SkipLetters(SubSeq(trimmed, 2, Len(trimmed) - 1)))
    ELSE trim(trim_end_matches(
                  trim_start_matches(
                      trim_start_matches(trimmed, <<Fence>> \o JsonTag),
                      <<Fence>>),
                  <<Fence>>))

\* the tokens in which the character "{" is, and those in which "}" is
OpenBraces ==
    {"{"} \cup EntryObjects

CloseBraces ==
    {"}"} \cup EntryObjects

\* str::find and str::rfind of a character that is in the tokens of set:
\* the position as an Option
Find(s, set) ==
    LET found == {i \in 1..Len(s) : s[i] \in set}
    IN  IF found = {}
        THEN <<>>
        ELSE <<CHOOSE i \in found : \A j \in found : i <= j>>

RFind(s, set) ==
    LET found == {i \in 1..Len(s) : s[i] \in set}
    IN  IF found = {}
        THEN <<>>
        ELSE <<CHOOSE i \in found : \A j \in found : j <= i>>

\* the list between the brackets of "names": the objects of name entries
\* with a comma between two of them, as an Option
RECURSIVE ParseNameList(_)
ParseNameList(s) ==
    IF s = <<>>
    THEN <<<<>>>>
    ELSE IF Head(s) \notin EntryObjects
    THEN <<>>
    ELSE IF Len(s) = 1
    THEN <<<<ParsedEntryOf(s[1])>>>>
    ELSE IF s[2] # "," \/ Len(s) = 2
    THEN <<>>
    ELSE LET rest == ParseNameList(SubSeq(s, 3, Len(s)))
         IN  IF rest = <<>>
             THEN <<>>
             ELSE <<<<ParsedEntryOf(s[1])>> \o rest[1]>>

\* serde_json::from_str::<ParsedNamesResponse> : the names, as an Option.
\* The token "names" is the member name with its colon; white space
\* between the tokens of JSON is skipped
ParsedNamesResponse(json_content) ==
    LET c == SelectSeq(json_content, LAMBDA t : t \notin Whitespace)
    IN  IF /\ Len(c) >= 5
           /\ c[1] = "{"
           /\ c[2] = "names"
           /\ c[3] = "["
           /\ c[Len(c) - 1] = "]"
           /\ c[Len(c)] = "}"
        THEN ParseNameList(SubSeq(c, 4, Len(c) - 2))
        ELSE <<>>

\* a Result of parse_response
ParseOk(entries) ==
    [ok |-> TRUE, entries |-> entries]

ParseErr ==
    [ok |-> FALSE, entries |-> <<>>]

\* NameScout::parse_response
parse_response(raw) ==
    LET trimmed == trim(raw)
        json_str == StripFence(trimmed)
        start == Find(json_str, OpenBraces)
        end == RFind(json_str, CloseBraces)
    IN  IF start = <<>> \/ end = <<>>
        THEN ParseErr
        ELSE IF start[1] > end[1]
        THEN ParseErr
        ELSE LET parsed == ParsedNamesResponse(
                               SubSeq(json_str, start[1], end[1]))
             IN  IF parsed = <<>>
                 THEN ParseErr
                 ELSE ParseOk(ConvertEntries(parsed[1]))

----------------------------------------------------------------------------
(* NameScout: collect_names *)

\* what a call of call_model meets: an error (the request fails or times
\* out, the status is not 2xx, the body is not a ChatResponse), or the
\* content of the first choice
ModelError ==
    [kind |-> "Err", content |-> <<>>]

ModelReply(content) ==
    [kind |-> "Ok", content |-> content]

\* NameScout::call_model : Ok(content.trim()) or the error
call_model(reply) ==
    IF reply.kind = "Err"
    THEN [ok |-> FALSE, raw |-> <<>>]
    ELSE [ok |-> TRUE, raw |-> trim(reply.content)]

\* a faulty refusal check, which takes no response for a refusal
IsRefusal_Never(raw_response) ==
    FALSE

\* collect_names, "Check for refusal"
IsRefusal(raw_response) ==
    LET lower == to_lowercase(raw_response)
    IN  \E p \in REFUSAL_PHRASES : starts_with(lower, p)

\* a faulty push, which keeps the empty lists
PushEntries_KeepsEmpty(rs, entries) ==
    Append(rs, entries)

\* collect_names: if !entries.is_empty() { results.push(entries) }
PushEntries(rs, entries) ==
    IF entries # <<>> THEN Append(rs, entries) ELSE rs

\* a faulty loop condition, which allows one attempt more
LoopContinues_OneMore ==
    scout_attempt <= scout_config.json_retries /\ ~success

\* collect_names: while attempt < self.scout_config.json_retries && !success
LoopContinues ==
    scout_attempt < scout_config.json_retries /\ ~success

\* a faulty for loop, which a chunk that failed ends
AfterChunk_FailureIsFatal(succeeded, last) ==
    IF last \/ ~succeeded THEN "return" ELSE "while"

\* collect_names: the for loop over the chunks goes to the next chunk
\* whether the chunk succeeded or not (a failure is logged), and to the
\* return after the last one
AfterChunk(succeeded, last) ==
    IF last THEN "return" ELSE "while"

\* the configurations of the scout: every json_retries of the bound, chunks
\* of one byte or of MaxChunkSize
NameScoutConfigs ==
    {NameScoutConfig(r, c) : r \in 0..MaxJsonRetries, c \in {1, MaxChunkSize}}

\* the payloads given to collect_names: empty, one line, three lines
Payloads ==
    {<<>>, <<"x">>, <<"x", LF, "y", LF, "x">>}

TanakaObject == "{original:u7530u4E2D,english:Tanaka,part:Family}"

\* the responses of the model: a JSON object with one name; a refusal
\* followed by that JSON object; prose without JSON; a fenced JSON object
\* with two names of which the second has no english; a JSON object with
\* no name left after the conversion; and the error
ModelReplies ==
    {ModelReply(<<"{", "names", "[", TanakaObject, "]", "}">>),
     ModelReply(<<"I", " ", "c", "a", "n", "n", "o", "t", ":", " ",
                  "{", "names", "[", TanakaObject, "]", "}">>),
     ModelReply(<<"o", "k">>),
     ModelReply(<<Fence>> \o JsonTag \o
                <<LF, "{", "names", "[", "{original:u7530,english: Ta }", ",",
                  "{original:u7530u4E2D,part:given}", "]", "}", LF, Fence>>),
     ModelReply(<<"{", "names", "[", "{original: ,english:Ta,part:given}",
                  "]", "}">>),
     ModelError}

\* a call of call_model, as it is logged: the number of the chunk, what
\* came back, whether the chunk succeeded with it and the seconds slept
\* after it
ModelCall(n, reply, succeeded, wait) ==
    [chunk |-> n, reply |-> reply, success |-> succeeded, wait |-> wait]

\* the locals of collect_names after a step
SetCollect(p, cs, n, a, s, rs) ==
    /\ collect_pc' = p
    /\ scout_chunks' = cs
    /\ scout_chunk_num' = n
    /\ scout_attempt' = a
    /\ success' = s
    /\ scout_results' = rs

\* collect_names, up to the first chunk
Collect ==
    /\ collect_pc \in {"idle", "done"}
    /\ \E t \in Payloads :
          LET cs == split_into_chunks(t, scout_config.chunk_size_chars)
          IN  /\ payload' = t
              /\ SetCollect(IF cs = <<>> THEN "return" ELSE "while",
                            cs, 1, 0, FALSE, <<>>)
    /\ model_calls' = <<>>
    /\ collected' = <<>>
    /\ UNCHANGED <<scout_config, storeVars, applyVars, translateVars,
                   scoutVars, chunkerVars, parseVars, mainVars>>

\* one turn of the retry loop: the call of the model, the refusal check,
\* the parsing, and the sleep after a failure
CallModel ==
    /\ collect_pc = "while"
    /\ LoopContinues
    /\ \E reply \in ModelReplies :
          LET called == call_model(reply)
              refused == called.ok /\ IsRefusal(called.raw)
              parsed == IF called.ok /\ ~refused
                        THEN parse_response(called.raw)
                        ELSE ParseErr
          IN  IF parsed.ok
              THEN /\ SetCollect("while", scout_chunks, scout_chunk_num,
                                 scout_attempt, TRUE,
                                 PushEntries(scout_results, parsed.entries))
                   /\ model_calls' =
                          Append(model_calls,
                                 ModelCall(scout_chunk_num, reply, TRUE, 0))
              ELSE /\ SetCollect("while", scout_chunks, scout_chunk_num,
                                 scout_attempt + 1, FALSE, scout_results)
                   /\ model_calls' =
                          Append(model_calls,
                                 ModelCall(scout_chunk_num, reply, FALSE,
                                           Backoff(scout_attempt + 1)))
    /\ UNCHANGED <<scout_config, payload, collected, storeVars, applyVars,
                   translateVars, scoutVars, chunkerVars, parseVars,
                   mainVars>>

\* the retry loop is left and the for loop goes on
NextChunk ==
    /\ collect_pc = "while"
    /\ ~LoopContinues
    /\ SetCollect(AfterChunk(success, scout_chunk_num >= Len(scout_chunks)),
                  scout_chunks, scout_chunk_num + 1, 0, FALSE, scout_results)
    /\ UNCHANGED <<scout_config, payload, model_calls, collected, storeVars,
                   applyVars, translateVars, scoutVars, chunkerVars,
                   parseVars, mainVars>>

\* collect_names returns results
CollectReturn ==
    /\ collect_pc = "return"
    /\ collected' = <<scout_results>>
    /\ SetCollect("done", scout_chunks, scout_chunk_num, scout_attempt,
                  success, scout_results)
    /\ UNCHANGED <<scout_config, payload, model_calls, storeVars, applyVars,
                   translateVars, scoutVars, chunkerVars, parseVars,
                   mainVars>>

InitCollect ==
    /\ names = <<>>
    /\ coverage = <<>>
    /\ disk = NoFile
    /\ call = Call("new", <<>>, <<>>, TRUE)
    /\ text = <<>>
    /\ result = <<>>
    /\ TranslatorIdle
    /\ ScoutIdle
    /\ ChunkerIdle
    /\ scout_config \in NameScoutConfigs
    /\ payload = <<>>
    /\ collect_pc = "idle"
    /\ scout_chunks = <<>>
    /\ scout_chunk_num = 1
    /\ scout_attempt = 0
    /\ success = FALSE
    /\ scout_results = <<>>
    /\ model_calls = <<>>
    /\ collected = <<>>
    /\ ParseIdle
    /\ MainIdle

NextCollect ==
    \/ Collect
    \/ CallModel
    \/ NextChunk
    \/ CollectReturn

SpecCollect ==
    InitCollect /\ [][NextCollect]_vars

\* every await of collect_names ends: the request of call_model has a
\* timeout of 60 seconds and the sleeps are finite, so a call that has
\* begun goes on to its return
SpecCollectFair ==
    /\ InitCollect
    /\ [][NextCollect]_vars
    /\ WF_vars(CallModel)
    /\ WF_vars(NextChunk)
    /\ WF_vars(CollectReturn)
----------------------------------------------------------------------------
(* Translator: streams in which data lines follow the [DONE] sentinel *)

\* the streams of a server that goes on after the sentinel: a fragment,
\* the sentinel, a fragment; the sentinel, then a fragment; and a stream
\* that ends with the sentinel
SentinelStreams ==
    {<<Delta(<<"H">>), Done, Delta(<<"i">>)>>,
     <<Done, Delta(<<"i">>)>>,
     <<Delta(<<"H">>), Done>>}

\* each of these streams arrives in one network read, or in two divided
\* anywhere
SentinelOutcomes ==
    UNION {{Outcome("stream", ev, reads) :
               reads \in Divisions(StreamText(ev))} : ev \in SentinelStreams}

NextSentinel ==
    \/ Translate
    \/ TitleAttempt(SentinelOutcomes)
    \/ Attempt(SentinelOutcomes)
    \/ ExitLoop
    \/ Return

SpecSentinel ==
    InitStream /\ [][NextSentinel]_vars

----------------------------------------------------------------------------
(* The retry loops of Translator::translate and NameScout::collect_names *)

\* the largest number of attempts configured for a chunk
MaxAttempts == 3

\* what a request of the Translator meets: the send fails, the status is
\* not 2xx, the response is empty, the response is a refusal, the response
\* is a translation
RetryOutcomes ==
    FailedRequests
        \cup {Outcome("stream", <<>>, <<>>)}
        \cup {Outcome("stream", ev, <<StreamText(ev)>>) :
                 ev \in {<<Delta(<<"I", " ", "C", "a">>),
                           Delta(<<"n", "n", "o", "t">>)>>,
                         <<Delta(<<"H">>), Delta(<<"i">>), Done>>}}

\* the texts translated: one chunk, two chunks
RetryTexts ==
    {<<"x">>, <<"x", LF, "y">>}

\* what a call of the model of the NameScout meets: a JSON object with one
\* name, a refusal, prose without JSON, the error
RetryReplies ==
    {ModelReply(<<"{", "names", "[", TanakaObject, "]", "}">>),
     ModelReply(<<"I", " ", "c", "a", "n", "n", "o", "t", ":", " ",
                  "{", "names", "[", TanakaObject, "]", "}">>),
     ModelReply(<<"o", "k">>),
     ModelError}

\* the payloads scouted: one chunk, two chunks
RetryPayloads ==
    {<<"x">>, <<"x", LF, "y", LF, "x">>}

\* a program whose Translator and NameScout are configured with the same
\* number of attempts, the Translator with chunks of one byte and the
\* NameScout with chunks of three; neither has been called
InitRetry ==
    /\ names = <<>>
    /\ coverage = <<>>
    /\ disk = NoFile
    /\ call = Call("new", <<>>, <<>>, TRUE)
    /\ text = <<>>
    /\ result = <<>>
    /\ \E r \in 0..MaxAttempts :
          /\ translation_config = TranslationConfig(r, 1, 1)
          /\ scout_config = NameScoutConfig(r, 3)
    /\ input = [text |-> <<>>, is_title |-> FALSE]
    /\ pc = "idle"
    /\ chunks = <<>>
    /\ chunk_num = 1
    /\ attempt = 0
    /\ last_error = <<>>
    /\ results = <<>>
    /\ history = <<>>
    /\ translated = <<>>
    /\ requests = <<>>
    /\ stream = <<>>
    /\ ScoutIdle
    /\ ChunkerIdle
    /\ payload = <<>>
    /\ collect_pc = "idle"
    /\ scout_chunks = <<>>
    /\ scout_chunk_num = 1
    /\ scout_attempt = 0
    /\ success = FALSE
    /\ scout_results = <<>>
    /\ model_calls = <<>>
    /\ collected = <<>>
    /\ ParseIdle
    /\ MainIdle

\* a run uses one of the two components: the Translator translates texts,
\* or the NameScout scouts payloads
NextRetry ==
    \/ collect_pc = "idle" /\ Translate /\ input'.text \in RetryTexts
    \/ TitleAttempt(RetryOutcomes)
    \/ Attempt(RetryOutcomes)
    \/ ExitLoop
    \/ Return
    \/ pc = "idle" /\ Collect /\ payload' \in RetryPayloads
    \/ CallModel /\ model_calls'[Len(model_calls')].reply \in RetryReplies
    \/ NextChunk
    \/ CollectReturn

SpecRetry ==
    InitRetry /\ [][NextRetry]_vars

----------------------------------------------------------------------------
(* NameScout::parse_response on the responses of a model *)

\* the largest number of name entries in a response
MaxEntries == 2

\* the lists of at most MaxEntries objects of name entries, with the comma
\* between two of them
RECURSIVE NameListsUpTo(_)
NameListsUpTo(n) ==
    IF n = 0
    THEN {<<>>}
    ELSE LET shorter == NameListsUpTo(n - 1)
         IN  shorter \cup {IF l = <<>> THEN <<o>> ELSE l \o <<",", o>> :
                              l \in shorter, o \in EntryObjects}

\* the responses: a JSON object with such a list of names, bare or inside
\* a code fence; prose; a JSON object that is not a ParsedNamesResponse
ParseResponses ==
    {<<"{", "names", "[">> \o l \o <<"]", "}">> : l \in NameListsUpTo(MaxEntries)}
    \cup {<<Fence>> \o JsonTag \o <<LF, "{", "names", "[">> \o l
              \o <<"]", "}", LF, Fence>> : l \in NameListsUpTo(MaxEntries)}
    \cup {<<"o", "k">>, <<"{", "}">>}

ParseResponse ==
    /\ parse_output = <<>>
    /\ \E raw \in ParseResponses :
          /\ parse_input' = raw
          /\ parse_output' = <<parse_response(raw)>>
    /\ UNCHANGED <<storeVars, applyVars, translateVars, scoutVars,
                   chunkerVars, collectVars, mainVars>>

InitParse ==
    /\ names = <<>>
    /\ coverage = <<>>
    /\ disk = NoFile
    /\ call = Call("new", <<>>, <<>>, TRUE)
    /\ text = <<>>
    /\ result = <<>>
    /\ TranslatorIdle
    /\ ScoutIdle
    /\ ChunkerIdle
    /\ CollectIdle
    /\ ParseIdle
    /\ MainIdle

NextParse ==
    ParseResponse

SpecParse ==
    InitParse /\ [][NextParse]_vars

----------------------------------------------------------------------------
(* record_votes on a store with records of two originals and a coverage *)

\* the argument lists: one or two entries out of three that pass the rules
\* (two renderings of one original, one of the other) and one that has an
\* honorific suffix on the original
FrameEntries ==
    {Entry(OTanaka, ETanaka, "Family"), Entry(OTanaka, ETa, "Given"),
     Entry(OTa, ETa, "Unknown"), InvalidEntrySeq[6]}

FrameEntryLists ==
    {<<e>> : e \in FrameEntries} \cup {<<e, f>> : e, f \in FrameEntries}

NextFrame ==
    \/ RecordVotes(FrameEntryLists)
    \/ AddCoverage(SingleChapterLists)

SpecFrame ==
    Init /\ [][NextFrame]_vars

----------------------------------------------------------------------------
(* main: process_chapters and process_oneshot *)

\* the title of the novel, and the title and the content of a chapter: a
\* name alone, a name after a character, a name before a character
NovelTitle ==
    OTanaka

ChapterTitle(n) ==
    <<"u3055">> \o OTanaka

ChapterContent(n) ==
    OTa \o <<"u3055">>

\* the stores of earlier runs: no record, or a record of OTanaka with a
\* vote for ETanaka
EarlierStores ==
    {<<>>} \cup record_votes(<<>>, <<Entry(OTanaka, ETanaka, "Family")>>)

\* what collect_names returns for a chapter in these runs: no entry list,
\* or one of one entry
MainNameChunkLists ==
    {<<>>} \cup {<<b>> : b \in StoreEntryLists}

\* a call of translator.translate as it is logged: the text of the novel
\* it is made for, the text handed over, is_title
Handed(raw, given, is_title) ==
    [raw |-> raw, text |-> given, is_title |-> is_title]

\* find_or_create_folder: the folder of the novel is there, or the title
\* of the novel is translated for the name of a new one (the original
\* title is the fallback when the translation fails)
FindOrCreateFolder ==
    /\ main_pc = "folder"
    /\ \E folder_exists \in BOOLEAN :
          handed' = IF folder_exists
                    THEN handed
                    ELSE Append(handed, Handed(NovelTitle, NovelTitle, TRUE))
    /\ main_pc' = "scout"
    /\ UNCHANGED <<oneshot, translating, storeVars, applyVars, translateVars,
                   scoutVars, chunkerVars, collectVars, parseVars>>

\* process_chapters, "Download phase": no chapter of the range could be
\* downloaded or read, and it returns Ok
NoChapters ==
    /\ main_pc = "scout"
    /\ scout_pc = "idle"
    /\ ~oneshot
    /\ main_pc' = "done"
    /\ UNCHANGED <<oneshot, translating, handed, storeVars, applyVars,
                   translateVars, scoutVars, chunkerVars, collectVars,
                   parseVars>>

\* a faulty loop of the review, which goes on whatever the reload returned
AfterReload_GoesOn(ok) ==
    "translate"

\* manual_name_review, "Reload and validate": Ok breaks the loop, and the
\* translation phase follows; Err is reported and the loop prompts again
AfterReload(ok) ==
    IF ok THEN "translate" ELSE "review"

\* the return of run_name_scout: its error is returned with `?`; the
\* review follows when names were scouted and no_name_pause is not set,
\* the translation phase otherwise
AfterScout ==
    /\ main_pc = "scout"
    /\ scout_pc = "returned"
    /\ IF ~scouted[1].ok
       THEN main_pc' = "aborted" /\ translating' = translating
       ELSE \E no_name_pause \in BOOLEAN :
               IF ~no_name_pause /\ scouted[1].value
               THEN main_pc' = "review" /\ translating' = translating
               ELSE main_pc' = "translate" /\ translating' = scout_chapters
    /\ UNCHANGED <<oneshot, handed, storeVars, applyVars, translateVars,
                   scoutVars, chunkerVars, collectVars, parseVars>>

\* manual_name_review: the user presses Enter and the file is reloaded
ReviewReload ==
    /\ main_pc = "review"
    /\ \E r \in reload_from_disk(names, coverage, disk) :
          /\ names' = r.names
          /\ coverage' = r.coverage
          /\ call' = Call("reload_from_disk", <<>>, <<>>, r.ok)
          /\ main_pc' = AfterReload(r.ok)
          /\ translating' = IF AfterReload(r.ok) = "translate"
                            THEN scout_chapters
                            ELSE translating
    /\ UNCHANGED <<disk, oneshot, handed, applyVars, translateVars,
                   scoutVars, chunkerVars, collectVars, parseVars>>

\* "Translation phase", one chapter: it is skipped when its translation
\* is there; otherwise the title (process_chapters only; a title that
\* fails gets a marker) and the content are mapped by apply_to_text and
\* handed to the translator, and an error of the content is returned
TranslateChapter ==
    /\ main_pc = "translate"
    /\ translating # <<>>
    /\ LET n == Head(translating)
       IN  \/ /\ handed' = handed
              /\ main_pc' = "translate"
              /\ translating' = Tail(translating)
           \/ \E mapped_title \in apply_to_text(names, ChapterTitle(n)),
                 mapped_content \in apply_to_text(names, ChapterContent(n)),
                 content_ok \in BOOLEAN :
                 /\ handed' =
                        handed
                        \o (IF oneshot
                            THEN <<>>
                            ELSE <<Handed(ChapterTitle(n), mapped_title, TRUE)>>)
                        \o <<Handed(ChapterContent(n), mapped_content, FALSE)>>
                 /\ main_pc' = IF content_ok THEN "translate" ELSE "aborted"
                 /\ translating' = IF content_ok
                                   THEN Tail(translating)
                                   ELSE translating
    /\ UNCHANGED <<oneshot, storeVars, applyVars, translateVars, scoutVars,
                   chunkerVars, collectVars, parseVars>>

\* the end of the translation phase
Finish ==
    /\ main_pc = "translate"
    /\ translating = <<>>
    /\ main_pc' = "done"
    /\ UNCHANGED <<oneshot, translating, handed, storeVars, applyVars,
                   translateVars, scoutVars, chunkerVars, collectVars,
                   parseVars>>

\* main has constructed the store from the file of an earlier run and is
\* about to process a oneshot or the chapters of a novel
InitMain ==
    /\ \E ns \in EarlierStores :
          /\ disk = IF ns = <<>> THEN NoFile ELSE JsonFile(Serialize(ns, <<>>))
          /\ \E r \in new(<<>>, <<>>, disk) :
                /\ names = r.names
                /\ coverage = r.coverage
    /\ call = Call("new", <<>>, <<>>, TRUE)
    /\ text = <<>>
    /\ result = <<>>
    /\ TranslatorIdle
    /\ ScoutIdle
    /\ ChunkerIdle
    /\ CollectIdle
    /\ ParseIdle
    /\ main_pc = "folder"
    /\ oneshot \in BOOLEAN
    /\ translating = <<>>
    /\ handed = <<>>

\* a oneshot is scouted as chapter 1; the chapters of a novel are those
\* that were downloaded
NextMain ==
    \/ FindOrCreateFolder
    \/ NoChapters
    \/ /\ main_pc = "scout"
       /\ RunNameScout
       /\ IF oneshot THEN scout_chapters' = <<1>> ELSE scout_chapters' # <<>>
    \/ CollectNames /\ name_chunks' \in MainNameChunkLists
    \/ ScoutRecordVotes
    \/ ScoutSaveVotes
    \/ ScoutAddCoverage
    \/ ScoutSaveCoverage
    \/ AfterScout
    \/ main_pc = "review" /\ ExternalEdit
    \/ ReviewReload
    \/ TranslateChapter
    \/ Finish

SpecMain ==
    InitMain /\ [][NextMain]_vars


----------------------------------------------------------------------------
(* Claims *)

\* short is a proper substring of long
IsProperSubstring(short, long) ==
    Len(short) < Len(long) /\ Contains(long, short)

\* the text in which every occurrence of long, found left to right, is
\* replaced by longTo as a whole, and every occurrence of short outside
\* those is replaced by shortTo
RECURSIVE WholeNamesReplaced(_, _, _, _, _)
WholeNamesReplaced(s, long, longTo, short, shortTo) ==
    IF s = <<>>
    THEN <<>>
    ELSE IF MatchesAt(s, long, 1)
    THEN longTo \o WholeNamesReplaced(SubSeq(s, Len(long) + 1, Len(s)),
                                      long, longTo, short, shortTo)
    ELSE IF MatchesAt(s, short, 1)
    THEN shortTo \o WholeNamesReplaced(SubSeq(s, Len(short) + 1, Len(s)),
                                       long, longTo, short, shortTo)
    ELSE <<Head(s)>> \o WholeNamesReplaced(Tail(s), long, longTo,
                                           short, shortTo)

\* C1: when the store maps a name and a proper substring of it,
\* apply_to_text returns the text with every occurrence of the longer name
\* replaced as a whole by its best rendering, and the shorter name replaced
\* only outside the occurrences of the longer one.
C1_LongestOriginalFirst ==
    result # <<>> =>
        \A long, short \in MappedOriginals(names) :
            (IsProperSubstring(short, long)
                /\ MappedOriginals(names) = {long, short})
            => result[1] = WholeNamesReplaced(text,
                              long, names[long].english[1],
                              short, names[short].english[1])

\* the rejection rules as the specification lists them
ClaimedInvalid(entry) ==
    \/ entry.original = <<>>
    \/ entry.english = <<>>
    \/ \E i \in 1..Len(entry.original) : entry.original[i] \in BadOriginalChars
    \/ entry.original \in ORIGINAL_NAME_DENYLIST
    \/ \E h \in HonorificSuffixes : EndsWith(entry.original, h)
    \/ \E h \in ENGLISH_HONORIFICS : Contains(to_lowercase(entry.english), h)
    \/ \E i \in 1..Len(entry.english) : entry.english[i] \in Whitespace

AllClaimedInvalid(entries) ==
    \A i \in 1..Len(entries) : ClaimedInvalid(entries[i])

\* C2: a record_votes call whose entries all break a rule (empty field, bad
\* character, denylisted original, honorific suffix, English honorific in
\* any case, white space in the english) leaves the records as they were.
C2_RejectedEntriesNotRecorded ==
    [][(call'.op = "record_votes" /\ AllClaimedInvalid(call'.entries))
        => names' = names]_vars

\* a call of two entries that break two rules has returned, on a store that
\* holds a record
C2_Witness ==
    /\ call.op = "record_votes"
    /\ Len(call.entries) = 2
    /\ call.entries[1] # call.entries[2]
    /\ AllClaimedInvalid(call.entries)
    /\ names # <<>>

\* C3: for every record, the best rendering is a key of votes whose count
\* is the largest count of the record, and the cached count is that count.
C3_BestHasMaxVotes ==
    \A o \in DOMAIN names :
        LET info == names[o]
        IN  /\ info.votes # <<>>
            /\ info.english # <<>>
            /\ info.english[1] \in VoteKeys(info.votes)
            /\ VoteCount(info.votes, info.english[1]) = MaxCount(info.votes)
            /\ info.count = <<MaxCount(info.votes)>>

\* two votes for one rendering and one for another: the first is best
C3_Witness ==
    /\ OTanaka \in DOMAIN names
    /\ VoteKeys(names[OTanaka].votes) = {ETanaka, ETa}
    /\ VoteCount(names[OTanaka].votes, ETanaka) = 2
    /\ VoteCount(names[OTanaka].votes, ETa) = 1
    /\ names[OTanaka].english = <<ETanaka>>
    /\ names[OTanaka].count = <<2>>

\* C4: when record_votes adds one vote and no rendering then has more votes
\* than the previous best rendering, the best rendering is the previous
\* best.
C4_TiesRetainPreviousBest ==
    [][(call'.op = "record_votes" /\ Len(call'.entries) = 1)
        => \A o \in (DOMAIN names) \cap (DOMAIN names') :
               LET previous == names[o].english
                   votes == names'[o].votes
               IN  (/\ previous # <<>>
                    /\ previous[1] \in VoteKeys(votes)
                    /\ VoteCount(votes, previous[1]) = MaxCount(votes))
                   => names'[o].english = previous]_vars

\* what a reader of the store sees of the records: the votes as a map
\* without order
Records(ns) ==
    [o \in DOMAIN ns |->
        [part |-> ns[o].part,
         votes |-> [e \in VoteKeys(ns[o].votes) |->
                       VoteCount(ns[o].votes, e)],
         english |-> ns[o].english,
         count |-> ns[o].count]]

\* C5: a reload, or the construction of a store, that follows a save
\* succeeds and yields the records (votes, best rendering, count, part)
\* and the coverage that were saved.
C5_SaveReloadRoundTrip ==
    [][(call.op = "save" /\ call'.op \in {"reload_from_disk", "new"})
        => /\ call'.ok
           /\ Records(names') = Records(names)
           /\ coverage' = coverage]_vars

\* the file cannot be read, or is not a serialized NameMappingData
NotWellFormed(file) ==
    \/ file.kind # "json"
    \/ \E o \in DOMAIN file.data.names :
          LET obj == file.data.names[o]
          IN  \/ "part" \notin DOMAIN obj
              \/ "votes" \notin DOMAIN obj
              \/ obj["part"] \notin {"family", "given", "unknown"}

\* C6: reload_from_disk on a file that cannot be read or is not well formed
\* returns an error, and a reload_from_disk that returns an error leaves
\* names and coverage as they were.
C6_ReloadFailsCleanly ==
    [][call'.op = "reload_from_disk"
        => /\ NotWellFormed(disk) => ~call'.ok
           /\ ~call'.ok => (names' = names /\ coverage' = coverage)]_vars

\* a reload of JSON that does not deserialize has failed on a store that
\* holds a record
C6_Witness ==
    /\ call.op = "reload_from_disk"
    /\ ~call.ok
    /\ disk.kind = "json"
    /\ names # <<>>

\* C7: a record's best rendering is None if and only if it has no votes.
C7_BestNoneIffNoVotes ==
    \A o \in DOMAIN names :
        (names[o].english = <<>>) <=> (names[o].votes = <<>>)

\* C8: every record of the store has at least one vote.
C8_NoRecordWithoutVotes ==
    \A o \in DOMAIN names : names[o].votes # <<>>

\* a file with a record under a good key was loaded, and the record is not
\* in the store: its votes were none, or were all purged
C8_Witness ==
    /\ call.op \in {"reload_from_disk", "new"}
    /\ call.ok
    /\ disk.kind = "json"
    /\ OTanaka \in DOMAIN disk.data.names
    /\ OTanaka \notin DOMAIN names

\* the count of a rendering of an original, zero when there is none
CountOf(ns, original, english) ==
    IF original \in DOMAIN ns /\ english \in VoteKeys(ns[original].votes)
    THEN VoteCount(ns[original].votes, english)
    ELSE 0

\* the number of entries of the list for the pair that break no rule
AcceptedVotes(entries, original, english) ==
    Cardinality({i \in 1..Len(entries) :
                    /\ entries[i].original = original
                    /\ entries[i].english = english
                    /\ ~ClaimedInvalid(entries[i])})

\* the originals and the renderings of the entries of the model
EntryOriginals ==
    {e.original : e \in ValidEntries \cup InvalidEntries}

EntryEnglishes ==
    {e.english : e \in ValidEntries \cup InvalidEntries}

\* the store is what one call with these entries leaves of a new store
IsOneCallOf(ns, entries) ==
    \A o \in EntryOriginals \cup DOMAIN ns, e \in EntryEnglishes :
        CountOf(ns, o, e) = AcceptedVotes(entries, o, e)

\* C9: record_votes raises the count of each pair by the number of its
\* entries for the pair that break no rule, and a second call with the
\* entries of the first call on a new store leaves every count at twice
\* its value.
C9_VotesAreAdditive ==
    [][call'.op = "record_votes"
        => \A o \in EntryOriginals, e \in EntryEnglishes :
              /\ CountOf(names', o, e)
                    = CountOf(names, o, e) + AcceptedVotes(call'.entries, o, e)
              /\ (/\ call.op = "record_votes"
                  /\ call'.entries = call.entries
                  /\ IsOneCallOf(names, call.entries))
                 => CountOf(names', o, e) = 2 * CountOf(names, o, e)]_vars

\* the second of two calls with the same entry has returned, and the count
\* of its pair is two
C9_Witness ==
    /\ call.op = "record_votes"
    /\ \E o \in EntryOriginals, e \in EntryEnglishes :
          /\ AcceptedVotes(call.entries, o, e) = 1
          /\ CountOf(names, o, e) = 2

\* the part of the first entry of the list for the original that breaks no
\* rule and has a part other than Unknown; Unknown when there is none
RECURSIVE FirstKnownPart(_, _)
FirstKnownPart(entries, original) ==
    IF entries = <<>>
    THEN "Unknown"
    ELSE IF /\ Head(entries).original = original
            /\ ~ClaimedInvalid(Head(entries))
            /\ Head(entries).part # "Unknown"
    THEN Head(entries).part
    ELSE FirstKnownPart(Tail(entries), original)

\* C10: record_votes and purge_bad_votes leave a part that is Family or
\* Given as it is; record_votes gives a record whose part is Unknown, or a
\* new record, the part of the first accepted entry for its original that
\* has a part other than Unknown.
C10_PartNeverDowngraded ==
    [][call'.op \in {"record_votes", "purge_bad_votes"}
        => \A o \in DOMAIN names' :
              LET before == IF o \in DOMAIN names
                            THEN names[o].part
                            ELSE "Unknown"
              IN  names'[o].part =
                      IF before # "Unknown"
                      THEN before
                      ELSE IF call'.op = "record_votes"
                      THEN FirstKnownPart(call'.entries, o)
                      ELSE "Unknown"]_vars

\* a call whose entries for one original are Family, then Unknown, has
\* left the part Family
C10_Witness ==
    /\ call.op = "record_votes"
    /\ Len(call.entries) = 2
    /\ call.entries[1].part = "Family"
    /\ call.entries[2].part = "Unknown"
    /\ call.entries[1].original = call.entries[2].original
    /\ ~ClaimedInvalid(call.entries[1])
    /\ ~ClaimedInvalid(call.entries[2])
    /\ names[call.entries[1].original].part = "Family"

\* C11: a second purge_bad_votes changes nothing: on the store, and on the
\* data of every file that deserializes, purging twice gives what purging
\* once gives (records, votes in their order, best rendering, count)
C11_PurgeIsIdempotent ==
    /\ purge_bad_votes(purge_bad_votes(names)) = purge_bad_votes(names)
    /\ IsParseable(disk) =>
          \A d \in Deserialize(disk.data) :
              purge_bad_votes(purge_bad_votes(d.names))
                  = purge_bad_votes(d.names)

\* purge_bad_votes has run on a store loaded from a file in which it found
\* something to remove and something to keep
C11_Witness ==
    /\ call.op = "purge_bad_votes"
    /\ IsParseable(disk)
    /\ names # <<>>
    /\ \E d \in Deserialize(disk.data) :
          /\ purge_bad_votes(d.names) = names
          /\ d.names # names

\* C12: every pair (original, english) of the store is one that
\* record_votes accepts.
C12_PurgeAppliesTheRulesOfRecordVotes ==
    \A o \in DOMAIN names :
        \A e \in VoteKeys(names[o].votes) :
            ~ClaimedInvalid(Entry(o, e, names[o].part))

C14_CoverageHasNoDuplicates ==
    \A i, j \in 1..Len(coverage) : i # j => coverage[i] # coverage[j]

\* the numbers of the list are in ascending order
IsAscending(s) ==
    \A i, j \in 1..Len(s) : i < j => s[i] <= s[j]

\* C15: in the file that save has just written, the coverage numbers are in
\* ascending order.
C15_SavedCoverageIsSorted ==
    (call.op = "save" /\ disk.kind = "json")
        => IsAscending(disk.data.coverage)

\* out is s with some occurrences of mapped originals replaced by their
\* best renderings and every other character copied
RECURSIVE IsSubstitutionOf(_, _, _)
IsSubstitutionOf(s, out, ns) ==
    \/ s = <<>> /\ out = <<>>
    \/ /\ s # <<>> /\ out # <<>>
       /\ Head(s) = Head(out)
       /\ IsSubstitutionOf(Tail(s), Tail(out), ns)
    \/ \E o \in MappedOriginals(ns) :
          /\ o # <<>>
          /\ MatchesAt(s, o, 1)
          /\ MatchesAt(out, ns[o].english[1], 1)
          /\ IsSubstitutionOf(SubSeq(s, Len(o) + 1, Len(s)),
                              SubSeq(out, Len(ns[o].english[1]) + 1, Len(out)),
                              ns)

\* C16: what apply_to_text returns is its input with occurrences of
\* recorded originals replaced by their best renderings, every other
\* character unchanged and in order, and no inserted rendering rewritten.
C16_UnmappedTextUntouched ==
    result # <<>> => IsSubstitutionOf(text, result[1], names)

\* the chunk a request carried: the content of its last message
ChunkOf(request) ==
    request.messages[Len(request.messages)].content

\* segment is the translation some request returned for the chunk
IsTranslationOf(segment, chunk) ==
    \E q \in 1..Len(requests) :
        /\ requests[q].ok
        /\ ChunkOf(requests[q]) = chunk
        /\ requests[q].reply = segment

\* segment is the failure marker, a line feed and the chunk
IsFailureOf(segment, chunk) ==
    /\ Len(segment) = Len(FailureMarker) + 1 + Len(chunk)
    /\ SubSeq(segment, 1, Len(FailureMarker)) = FailureMarker
    /\ segment[Len(FailureMarker) + 1] = "u000A"
    /\ SubSeq(segment, Len(FailureMarker) + 2, Len(segment)) = chunk

\* C17: when translate has returned in content mode, there is one segment
\* for each chunk, in chunk order, the chunk's translation or its failure
\* placeholder, and the value returned is the segments joined by a blank
\* line.
C17_OneSegmentPerChunk ==
    (pc = "done" /\ ~input.is_title /\ trim(input.text) # <<>>) =>
        /\ Len(results) = Len(chunks)
        /\ \A j \in 1..Len(results) :
              \/ IsTranslationOf(results[j], chunks[j])
              \/ IsFailureOf(results[j], chunks[j])
        /\ translated = <<Ok(join(results, <<"u000A", "u000A">>))>>

\* C18: when the retry loop of a chunk is left after one or more attempts
\* that all failed, the segment pushed for the chunk is the failure marker
\* followed by the chunk, translate goes on to the next chunk (or to the
\* join after the last one), and what translate returns in content mode is
\* Ok.
C18_ExhaustedChunkGetsPlaceholder ==
    [][/\ (pc = "while" /\ attempt >= 1 /\ chunk_num' = chunk_num + 1) =>
              /\ Len(results') = Len(results) + 1
              /\ IsFailureOf(results'[Len(results')], chunks[chunk_num])
              /\ SubSeq(results', 1, Len(results)) = results
              /\ pc' = IF chunk_num' <= Len(chunks) THEN "while" ELSE "join"
       /\ (pc' = "done" /\ pc # "done" /\ ~input'.is_title) =>
              /\ translated' # <<>>
              /\ translated'[1].ok]_vars

\* translate has returned after a first chunk whose attempts all failed
\* and a second chunk that was translated
C18_Witness ==
    /\ pc = "done"
    /\ ~input.is_title
    /\ Len(chunks) >= 2
    /\ Len(results) >= 2
    /\ IsFailureOf(results[1], chunks[1])
    /\ IsTranslationOf(results[2], chunks[2])
    /\ Len(requests) >= 3
    /\ translated # <<>>
    /\ translated[1].ok

\* the requests of this call of translate that succeeded, in order
Exchanges ==
    SelectSeq(requests, LAMBDA q : q.ok)

\* C19: in content mode the history holds at most 1 + 2 * history_length
\* messages, and its first message is the system message with the content
\* prompt.
C19_HistoryIsBounded ==
    (~input.is_title /\ history # <<>>) =>
        /\ Len(history) <= 1 + 2 * translation_config.history_length
        /\ history[1].role = "system"
        /\ history[1].content = content_prompt

\* there were more successful exchanges than history_length, which is not
\* zero
C19_Witness ==
    /\ ~input.is_title
    /\ translation_config.history_length >= 1
    /\ Len(Exchanges) > translation_config.history_length
    /\ Len(history) = 1 + 2 * translation_config.history_length

\* the pairs of the exchanges from..Len(Exchanges), each a user message
\* with the chunk and an assistant message with the translation
RECURSIVE PairsFrom(_)
PairsFrom(from) ==
    IF from > Len(Exchanges)
    THEN <<>>
    ELSE <<[role |-> "user", content |-> ChunkOf(Exchanges[from])],
           [role |-> "assistant", content |-> Exchanges[from].reply]>>
             \o PairsFrom(from + 1)

\* C20: after k successful exchanges the history after the system message
\* is the last min(k, history_length) request/response pairs, in order.
C20_OldestPairsEvictedFirst ==
    (~input.is_title /\ history # <<>>) =>
        LET k == Len(Exchanges)
            N == translation_config.history_length
            kept == IF k < N THEN k ELSE N
        IN  Tail(history) = PairsFrom(k - kept + 1)

\* three exchanges succeeded, on different chunks, and the history keeps
\* the last two
C20_Witness ==
    /\ ~input.is_title
    /\ translation_config.history_length = 2
    /\ Len(Exchanges) = 3
    /\ ChunkOf(Exchanges[2]) # ChunkOf(Exchanges[3])
    /\ Len(history) = 5

----------------------------------------------------------------------------
(* Claims: title mode, refusal detection, streaming *)

\* C25: a translate call in title mode issues exactly one request, whose
\* messages are the system title prompt and the user text whatever was
\* translated before, and returns what that request returned, a failure as
\* an error.
C25_TitleModeIsSingleShot ==
    (input.is_title /\ trim(input.text) # <<>>) =>
        /\ pc \in {"title", "done"}
        /\ pc = "title" => requests = <<>>
        /\ pc = "done" =>
              /\ Len(requests) = 1
              /\ requests[1].messages =
                     <<[role |-> "system", content |-> title_prompt],
                       [role |-> "user", content |-> input.text]>>
              /\ translated # <<>>
              /\ translated[1].ok = requests[1].ok
              /\ requests[1].ok => translated[1].value = requests[1].reply

\* the delta content fragments of the events, concatenated in order
RECURSIVE Delivered(_)
Delivered(events) ==
    IF events = <<>>
    THEN <<>>
    ELSE (IF Head(events).kind = "delta" THEN Head(events).content ELSE <<>>)
             \o Delivered(Tail(events))

\* the character c, lower-cased, is the lower-case character p
SameLetter(c, p) ==
    \/ c = p
    \/ \E k \in 1..26 : c = UpperAscii[k] /\ p = LowerAscii[k]

\* the lower-cased response starts with one of the refusal phrases
ClaimedRefusal(response) ==
    \E phrase \in REFUSAL_PHRASES :
        /\ Len(response) >= Len(phrase)
        /\ \A i \in 1..Len(phrase) : SameLetter(response[i], phrase[i])

\* the error of the phrase check
PhraseRefusal ==
    "Refused: Response starts with refusal phrase"

\* the request made in this step was classified as a refusal by the phrase
\* check
RefusedNow ==
    IF input'.is_title
    THEN ~translated'[1].ok /\ translated'[1].value = PhraseRefusal
    ELSE last_error' = <<PhraseRefusal>>

\* a request is made in this step and its stream arrives to the end
StreamedNow ==
    /\ Len(requests') = Len(requests) + 1
    /\ stream' # <<>>
    /\ stream'[1].kind = "stream"

\* C26: the response of a request (the text the stream delivered, trimmed)
\* is classified as a refusal if and only if its lower-cased text starts
\* with one of the refusal phrases; a response with a refusal phrase later
\* in the text is accepted as the translation.
C26_RefusalIsLeadingPhraseMatch ==
    [][StreamedNow =>
          LET response == trim(Delivered(stream'[1].events))
          IN  /\ RefusedNow <=> ClaimedRefusal(response)
              /\ (response # <<>> /\ ~ClaimedRefusal(response)) =>
                     /\ requests'[Len(requests')].ok
                     /\ requests'[Len(requests')].reply = response]_vars

\* a response with a refusal phrase after its first word was accepted, and
\* after it a response that starts with a refusal phrase in mixed case was
\* refused
C26_Witness ==
    /\ Len(requests) >= 2
    /\ requests[Len(requests) - 1].ok
    /\ requests[Len(requests) - 1].reply =
           <<"S", "o", " ", "I", " ", "c", "a", "n", "n", "o", "t">>
    /\ stream # <<>>
    /\ stream[1].kind = "stream"
    /\ Delivered(stream[1].events) =
           <<"I", " ", "C", "a", "n", "n", "o", "t">>
    /\ last_error = <<PhraseRefusal>>

\* C27: for every request whose stream arrives to the end, however it is
\* divided into network reads, the empty check and the refusal check are
\* made on the concatenation of all the delta content fragments the stream
\* delivered, and that string, trimmed, is the translation when they pass.
C27_ChecksOnWholeStream ==
    [][StreamedNow =>
          LET response == trim(Delivered(stream'[1].events))
              request == requests'[Len(requests')]
          IN  /\ request.ok <=> (response # <<>> /\ ~ClaimedRefusal(response))
              /\ request.ok => request.reply = response]_vars

----------------------------------------------------------------------------
(* Claims: the chunkers *)

\* the pieces of s between the characters of seps, from position i on,
\* `current` being the piece read so far: there is one piece more than
\* there are separators, and a piece can be empty
RECURSIVE PiecesFrom(_, _, _, _)
PiecesFrom(s, seps, i, current) ==
    IF i > Len(s)
    THEN <<current>>
    ELSE IF s[i] \in seps
         THEN <<current>> \o PiecesFrom(s, seps, i + 1, <<>>)
         ELSE PiecesFrom(s, seps, i + 1, Append(current, s[i]))

\* the lines a string is joined from
JoinedLines(s) ==
    PiecesFrom(s, {"u000A"}, 1, <<>>)

\* the lines of the input: each ends at its line feed, and what follows
\* the last line feed is a line when it is not empty
InputLines(s) ==
    LET pieces == JoinedLines(s)
    IN  IF pieces[Len(pieces)] = <<>>
        THEN SubSeq(pieces, 1, Len(pieces) - 1)
        ELSE pieces

\* the words of a string
WordsOf(s) ==
    SelectSeq(PiecesFrom(s, Whitespace, 1, <<>>), LAMBDA w : w # <<>>)

\* the sequences of a sequence of sequences, one after the other
RECURSIVE Flatten(_)
Flatten(seqs) ==
    IF seqs = <<>> THEN <<>> ELSE Head(seqs) \o Flatten(Tail(seqs))

\* the chunker named has returned
Chunked(chunker) ==
    /\ chunker_output # <<>>
    /\ chunker_output[1].chunker = chunker

C29_OnlyOneLineExceedsLimit ==
    (Chunked("split_text_into_line_chunks") \/ Chunked("split_into_chunks")) =>
        LET cs == chunker_output[1].chunks
            input_lines == InputLines(chunker_input.text)
        IN  \A j \in 1..Len(cs) :
                /\ Len(JoinedLines(cs[j])) > 1 =>
                       ByteLen(cs[j]) <= chunker_input.chunk_size
                /\ ByteLen(cs[j]) > chunker_input.chunk_size =>
                       /\ Len(JoinedLines(cs[j])) = 1
                       /\ \E k \in 1..Len(input_lines) :
                              input_lines[k] = cs[j]

\* the scout's chunker returned a chunk of one line over the size and a
\* chunk of two lines
C29_Witness ==
    /\ Chunked("split_into_chunks")
    /\ \E j \in 1..Len(chunker_output[1].chunks) :
           ByteLen(chunker_output[1].chunks[j]) > chunker_input.chunk_size
    /\ \E j \in 1..Len(chunker_output[1].chunks) :
           Len(JoinedLines(chunker_output[1].chunks[j])) > 1

\* C30: every chunk of Translator::split_text_into_chunks has at most
\* chunk_size bytes unless it is one word of more than chunk_size bytes,
\* and the words of the chunks, in chunk order, are the words of the input
\* in order.
C30_OversizedChunksAreResplit ==
    Chunked("split_text_into_chunks") =>
        LET cs == chunker_output[1].chunks
        IN  /\ \A j \in 1..Len(cs) :
                   \/ ByteLen(cs[j]) <= chunker_input.chunk_size
                   \/ WordsOf(cs[j]) = <<cs[j]>>
            /\ Flatten([j \in 1..Len(cs) |-> WordsOf(cs[j])])
                   = WordsOf(chunker_input.text)

\* a line over the size was split into a word over the size and a word
\* within it
C30_Witness ==
    /\ Chunked("split_text_into_chunks")
    /\ chunker_input.text = <<"x", "x", " ", "x">>
    /\ chunker_input.chunk_size = 1
    /\ chunker_output[1].chunks = <<<<"x", "x">>, <<"x">>>>

----------------------------------------------------------------------------
(* Claims: collect_names *)

\* the calls of the model for chunk n, in order
CallsOf(n) ==
    SelectSeq(model_calls, LAMBDA c : c.chunk = n)

\* chunk n is in the terminal state Success: its last call succeeded and
\* no call before it did
ChunkSuccess(n) ==
    LET cs == CallsOf(n)
    IN  /\ cs # <<>>
        /\ cs[Len(cs)].success
        /\ \A k \in 1..(Len(cs) - 1) : ~cs[k].success

\* chunk n is in the terminal state Exhausted: json_retries calls, none of
\* which succeeded
ChunkExhausted(n) ==
    LET cs == CallsOf(n)
    IN  /\ Len(cs) = scout_config.json_retries
        /\ \A k \in 1..Len(cs) : ~cs[k].success

\* at most json_retries calls for each chunk, and every chunk the loop has
\* left is in a terminal state
C21_WithinBudget ==
    /\ \A n \in 1..Len(scout_chunks) :
           Len(CallsOf(n)) <= scout_config.json_retries
    /\ \A n \in 1..Len(scout_chunks) :
           n < scout_chunk_num => (ChunkSuccess(n) \/ ChunkExhausted(n))

\* C21: for each chunk at most json_retries calls of the model are made,
\* whatever the calls return (errors, refusals, responses that do not
\* parse), after which the chunk is in the state Success or Exhausted, and
\* every call of collect_names returns.
C21_BudgetAndTermination ==
    /\ []C21_WithinBudget
    /\ (collect_pc \in {"while", "return"}) ~> (collect_pc = "done")

\* collect_names has returned after a chunk that succeeded on its second
\* call and a chunk that failed json_retries times, with an error, a
\* refusal or a response that does not parse
C21_Witness ==
    /\ collect_pc = "done"
    /\ scout_config.json_retries = 2
    /\ Len(scout_chunks) >= 2
    /\ Len(CallsOf(1)) = 2
    /\ ChunkSuccess(1)
    /\ ChunkExhausted(2)
    /\ CallsOf(2)[1].reply.kind = "Err"
    /\ CallsOf(2)[2].reply.kind = "Ok"

\* s is the beginning of t
IsPrefix(s, t) ==
    Len(s) <= Len(t) /\ SubSeq(t, 1, Len(s)) = s

\* C22: when the retry loop of a chunk is left after failed calls and no
\* success, the lists collected so far are kept and the for loop goes to
\* the next chunk with a new budget (to the return after the last chunk);
\* no step of a call drops a list; and at the return every chunk after a
\* chunk that failed has been submitted to the model and the lists
\* collected are returned.
C22_ExhaustedChunkIsNotFatal ==
    [][/\ (/\ collect_pc = "while"
           /\ scout_chunk_num' = scout_chunk_num + 1
           /\ scout_attempt >= 1
           /\ ~success) =>
              /\ scout_results' = scout_results
              /\ scout_attempt' = 0
              /\ collect_pc' = IF scout_chunk_num < Len(scout_chunks)
                               THEN "while"
                               ELSE "return"
       /\ (collect_pc \in {"while", "return"}) =>
              IsPrefix(scout_results, scout_results')
       /\ (collect_pc = "return" /\ collect_pc' = "done") =>
              /\ collected' = <<scout_results>>
              /\ \A i, j \in 1..Len(scout_chunks) :
                     (/\ i < j
                      /\ CallsOf(i) # <<>>
                      /\ ~ChunkSuccess(i)) => CallsOf(j) # <<>>]_vars

\* collect_names has returned the lists of the first and the third chunk;
\* the second chunk ended Exhausted
C22_Witness ==
    /\ collect_pc = "done"
    /\ Len(scout_chunks) = 3
    /\ ChunkSuccess(1)
    /\ CallsOf(2) # <<>>
    /\ ChunkExhausted(2)
    /\ ChunkSuccess(3)
    /\ collected # <<>>
    /\ Len(collected[1]) = 2

\* the entries of the response with which chunk n reached Success, and no
\* entries when it did not
EntriesOf(n) ==
    LET cs == CallsOf(n)
    IN  IF cs # <<>> /\ cs[Len(cs)].success
        THEN parse_response(trim(cs[Len(cs)].reply.content)).entries
        ELSE <<>>

\* the lists of the chunks from n on that reached Success with one entry
\* or more, in chunk order
RECURSIVE ListsFrom(_)
ListsFrom(n) ==
    IF n > Len(scout_chunks)
    THEN <<>>
    ELSE (IF EntriesOf(n) # <<>> THEN <<EntriesOf(n)>> ELSE <<>>)
             \o ListsFrom(n + 1)

RefusalNow ==
    /\ Len(model_calls') = Len(model_calls) + 1
    /\ model_calls'[Len(model_calls')].reply.kind = "Ok"
    /\ ClaimedRefusal(trim(model_calls'[Len(model_calls')].reply.content))

\* C24: a response of the model that starts with a refusal phrase adds no
\* entries, whatever follows the phrase, counts as one attempt, is followed
\* by a sleep, and the chunk is tried again while attempts are left.
C24_RefusalIsFailedAttempt ==
    [][RefusalNow =>
          /\ scout_results' = scout_results
          /\ ~model_calls'[Len(model_calls')].success
          /\ ~success'
          /\ scout_attempt' = scout_attempt + 1
          /\ model_calls'[Len(model_calls')].wait >= 1
          /\ scout_chunk_num' = scout_chunk_num
          /\ collect_pc' = "while"]_vars

\* a response with a refusal phrase before a JSON object with a name was
\* followed by a second call for the same chunk, which succeeded
C24_Witness ==
    /\ Len(model_calls) >= 2
    /\ LET refused == model_calls[Len(model_calls) - 1]
           retried == model_calls[Len(model_calls)]
       IN  /\ refused.reply.kind = "Ok"
           /\ ClaimedRefusal(refused.reply.content)
           /\ parse_response(refused.reply.content).ok
           /\ parse_response(refused.reply.content).entries # <<>>
           /\ ~refused.success
           /\ retried.chunk = refused.chunk
           /\ retried.success
    /\ scout_results # <<>>
----------------------------------------------------------------------------
(* Claims: the [DONE] sentinel *)

\* the fragments of the events before the first sentinel, concatenated
RECURSIVE BeforeDone(_)
BeforeDone(events) ==
    IF events = <<>> \/ Head(events).kind = "done"
    THEN <<>>
    ELSE Head(events).content \o BeforeDone(Tail(events))

\* s can be obtained from t by leaving characters out
RECURSIVE IsSubsequence(_, _)
IsSubsequence(s, t) ==
    IF s = <<>>
    THEN TRUE
    ELSE IF t = <<>>
    THEN FALSE
    ELSE IF Head(s) = Head(t)
    THEN IsSubsequence(Tail(s), Tail(t))
    ELSE IsSubsequence(s, Tail(t))

\* C40: once a data line carrying [DONE] has been read for a request, no
\* fragment of a later data line, in the same network read or in a later
\* one, is appended to the aggregated response: a response that is accepted
\* is made of characters of the fragments before the sentinel only, and a
\* stream with no visible fragment before the sentinel is not accepted.
C40_DoneEndsTheResponse ==
    [][StreamedNow =>
          LET request == requests'[Len(requests')]
              before == BeforeDone(stream'[1].events)
          IN  request.ok => IsSubsequence(request.reply, before)]_vars

----------------------------------------------------------------------------
(* Claims: the history and the failed attempts *)

\* the history sent with the request j: the messages between the system
\* message and the user message of the chunk
HistorySent(j) ==
    SubSeq(requests[j].messages, 2, Len(requests[j].messages) - 1)

\* the message at position p of the history sent with the request j and
\* the message after it are the exchange of an earlier request that
\* succeeded
IsSuccessfulExchange(j, p) ==
    /\ p < Len(HistorySent(j))
    /\ HistorySent(j)[p + 1].role = "assistant"
    /\ \E i \in 1..(j - 1) :
          /\ requests[i].ok
          /\ ChunkOf(requests[i]) = HistorySent(j)[p].content
          /\ requests[i].reply = HistorySent(j)[p + 1].content

\* C36: a request that returns an error (transport error, status that is
\* not 2xx, empty response, refusal) leaves the history with exactly the
\* messages it had before the call, and the history sent with any request
\* is made of the exchanges of earlier requests that succeeded only: the
\* chunk of a failed request, which ends as a failure placeholder, is in
\* no history sent later.
C36_FailedAttemptKeepsHistory ==
    [][/\ (Len(requests') = Len(requests) + 1
              /\ ~requests'[Len(requests')].ok) => history' = history
       /\ \A j \in 1..Len(requests') :
             /\ Len(HistorySent(j)') % 2 = 0
             /\ \A p \in 1..Len(HistorySent(j)') :
                   p % 2 = 1 =>
                       /\ HistorySent(j)'[p].role = "user"
                       /\ IsSuccessfulExchange(j, p)']_vars

\* the first chunk was translated, the second ended as a failure
\* placeholder after a failed request, and the request of the third chunk
\* was sent with the exchange of the first chunk as its whole history
C36_Witness ==
    /\ Len(requests) >= 3
    /\ Len(results) >= 2
    /\ results[2] = FailureMarker \o <<"u000A", "y">>
    /\ \E i, j, k \in 1..Len(requests) :
          /\ i < j /\ j < k
          /\ requests[i].chunk = 1 /\ requests[i].ok
          /\ requests[j].chunk = 2 /\ ~requests[j].ok
          /\ requests[k].chunk = 3
          /\ Len(requests[k].messages) = 4
          /\ requests[k].messages[2].content = <<"x">>

----------------------------------------------------------------------------
(* Claims: the backoff *)

\* 2 to the power k, by doubling
RECURSIVE TwoToThe(_)
TwoToThe(k) ==
    IF k = 0 THEN 1 ELSE 2 * TwoToThe(k - 1)

\* the number of failed requests of the Translator for the chunk of the
\* request i, up to and with the request i
FailedRequestsUpTo(i) ==
    Cardinality({j \in 1..i : /\ requests[j].chunk = requests[i].chunk
                              /\ ~requests[j].ok})

\* the number of failed calls of the NameScout for the chunk of the call i,
\* up to and with the call i
FailedCallsUpTo(i) ==
    Cardinality({j \in 1..i : /\ model_calls[j].chunk = model_calls[i].chunk
                              /\ ~model_calls[j].success})

----------------------------------------------------------------------------
(* Claims: the response parser *)

\* the field (an Option) is missing, or empty after trimming
MissingOrBlank(field) ==
    \/ field = <<>>
    \/ \A i \in 1..Len(field[1]) : field[1][i] \in Whitespace

\* the string is the word, whatever the case of its letters
IsWord(s, word) ==
    /\ Len(s) = Len(word)
    /\ \A i \in 1..Len(word) : SameLetter(s[i], word[i])

\* the part the claim gives to an entry
ClaimedPart(part) ==
    IF part = <<>>
    THEN "Unknown"
    ELSE IF IsWord(part[1], <<"f", "a", "m", "i", "l", "y">>)
    THEN "Family"
    ELSE IF IsWord(part[1], <<"g", "i", "v", "e", "n">>)
    THEN "Given"
    ELSE "Unknown"

\* the entries the claim keeps of the objects of a response, in their order
RECURSIVE ClaimedEntries(_)
ClaimedEntries(objects) ==
    IF objects = <<>>
    THEN <<>>
    ELSE LET e == ParsedEntryOf(Head(objects))
         IN  (IF MissingOrBlank(e.original) \/ MissingOrBlank(e.english)
              THEN <<>>
              ELSE <<[original |-> trim(e.original[1]),
                      english |-> trim(e.english[1]),
                      part |-> ClaimedPart(e.part)]>>)
                 \o ClaimedEntries(Tail(objects))

\* the objects of name entries in a response
ObjectsIn(raw) ==
    SelectSeq(raw, LAMBDA t : t \in EntryObjects)

\* C32: parse_response on a response that holds a JSON object with a list
\* of names returns, in the order of the list, the entries whose original
\* and english are both present and not empty after trimming (an entry
\* that lacks one is dropped and the others are kept), and the part of an
\* entry is Family or Given when its part field is that word in any case
\* of letters, Unknown when the field is absent or is another word.
C32_EntriesDroppedIndividually ==
    (parse_output # <<>> /\ Len(parse_input) >= 5) =>
        /\ parse_output[1].ok
        /\ parse_output[1].entries = ClaimedEntries(ObjectsIn(parse_input))

\* a response of two entries: the first has no english and is dropped, the
\* second has a part that is no NamePart and is kept with the part Unknown
C32_Witness ==
    /\ parse_input = <<"{", "names", "[", "{original:u7530u4E2D,part:given}",
                       ",", "{original:u7530,english:Ta,part:title}",
                       "]", "}">>
    /\ parse_output = <<[ok |-> TRUE,
                         entries |-> <<[original |-> <<"u7530">>,
                                        english |-> <<"T", "a">>,
                                        part |-> "Unknown"]>>]>>

----------------------------------------------------------------------------
(* Claims: the frame of record_votes *)

\* the originals of the entries of the list that pass every rule
AcceptedOriginals(entries) ==
    {entries[i].original :
        i \in {j \in 1..Len(entries) : ~ClaimedInvalid(entries[j])}}

\* the number of votes of the rendering in a record of the map, 0 when
\* there is none
VotesFor(ns, original, english) ==
    IF original \notin DOMAIN ns
    THEN 0
    ELSE LET found == {i \in 1..Len(ns[original].votes) :
                          ns[original].votes[i].english = english}
         IN  IF found = {}
             THEN 0
             ELSE ns[original].votes[CHOOSE i \in found : TRUE].count

\* the renderings that have a vote in a record of the map
RenderingsOf(ns, original) ==
    {ns[original].votes[i].english : i \in 1..Len(ns[original].votes)}

\* C39: a call of record_votes leaves the coverage and the file as they
\* were, keeps every record there was, leaves every record unchanged whose
\* original is not the original of an accepted entry, adds records for
\* originals of accepted entries only, and lowers no vote count; a call
\* whose entries are all rejected changes nothing.
C39_RecordVotesFrame ==
    [][call'.op = "record_votes" =>
          LET accepted == AcceptedOriginals(call'.entries)
          IN  /\ coverage' = coverage
              /\ disk' = disk
              /\ DOMAIN names \subseteq DOMAIN names'
              /\ (DOMAIN names') \ (DOMAIN names) \subseteq accepted
              /\ \A o \in DOMAIN names :
                     /\ o \notin accepted => names'[o] = names[o]
                     /\ \A e \in RenderingsOf(names, o) :
                            VotesFor(names', o, e) >= VotesFor(names, o, e)
              /\ accepted = {} => names' = names]_vars

\* a call with a rejected entry and an accepted one has returned on a
\* store that has records of two originals and a coverage
C39_Witness ==
    /\ call.op = "record_votes"
    /\ Len(call.entries) = 2
    /\ ClaimedInvalid(call.entries[1])
    /\ call.entries[2].original = <<"u7530", "u4E2D">>
    /\ DOMAIN names = {<<"u7530", "u4E2D">>, <<"u7530">>}
    /\ VotesFor(names, <<"u7530", "u4E2D">>, <<"T", "a">>) = 2
    /\ coverage # <<>>

----------------------------------------------------------------------------
(* Claims: run_name_scout *)

\* the chapter number is in the coverage list
InCoverage(cov, n) ==
    \E k \in 1..Len(cov) : cov[k] = n

\* C37: run_name_scout keeps, of the chapters it is given, those that are
\* not in coverage, and submits to the scout only chapters it was given
\* that are not in coverage; when every chapter given is in coverage it
\* returns Ok(false) at once, with no call of the scout and with names,
\* coverage and file as they were.
C37_OnlyUncoveredAreScouted ==
    [][/\ call'.op = "is_chapter_covered" =>
              /\ \A i \in 1..Len(uncovered') :
                     ~InCoverage(coverage, uncovered'[i])
              /\ \A i \in 1..Len(scout_chapters') :
                     ~InCoverage(coverage, scout_chapters'[i]) =>
                         \E j \in 1..Len(uncovered') :
                             uncovered'[j] = scout_chapters'[i]
              /\ (\A i \in 1..Len(scout_chapters') :
                      InCoverage(coverage, scout_chapters'[i])) =>
                     /\ scouted' # <<>>
                     /\ scouted'[1].ok
                     /\ ~scouted'[1].value
                     /\ scout_pc' = "returned"
                     /\ names' = names
                     /\ coverage' = coverage
                     /\ disk' = disk
       /\ call'.op = "collect_names" =>
              /\ ~InCoverage(coverage, call'.chapters[1])
              /\ \E i \in 1..Len(scout_chapters) :
                     scout_chapters[i] = call'.chapters[1]
              /\ scouted = <<>>]_vars

\* run_name_scout was given chapters that are all in coverage and has
\* returned Ok(false)
C37_Witness ==
    /\ call.op = "is_chapter_covered"
    /\ Len(scout_chapters) >= 2
    /\ \A i \in 1..Len(scout_chapters) : InCoverage(coverage, scout_chapters[i])
    /\ scout_pc = "returned"
    /\ scouted # <<>>
    /\ scouted[1].ok
    /\ ~scouted[1].value

\* C38: when run_name_scout has returned Ok, every chapter it was given is
\* in coverage, whether collect_names returned entry lists for it or none
\* (chunks exhausted); add_coverage for a chapter is called when no entry
\* list of the chapter is left, each one recorded and then saved with
\* success; and a save of votes that fails ends the run with the error,
\* the chapter not in coverage.
C38_CoverageAfterVotes ==
    [][/\ (scouted' # <<>> /\ scouted'[1].ok) =>
              \A i \in 1..Len(scout_chapters') :
                  InCoverage(coverage', scout_chapters'[i])
       /\ call'.op = "add_coverage" =>
              /\ name_chunks = <<>>
              /\ \/ call.op = "collect_names"
                 \/ /\ call.op = "save"
                    /\ call.ok
                    /\ disk = JsonFile(Serialize(names, coverage))
       /\ (call.op = "record_votes" /\ call'.op # "save") => FALSE
       /\ (call.op = "record_votes" /\ call'.op = "save" /\ ~call'.ok) =>
              /\ coverage' = coverage
              /\ ~InCoverage(coverage', uncovered'[1])
              /\ scout_pc' = "returned"
              /\ scouted' # <<>>
              /\ ~scouted'[1].ok]_vars

\* run_name_scout has returned Ok(true) for two chapters, which are in
\* coverage, on a store without a record: no chunk gave a name
C38_Witness ==
    /\ scout_pc = "returned"
    /\ scouted # <<>>
    /\ scouted[1].ok
    /\ scouted[1].value
    /\ Len(scout_chapters) = 2
    /\ \A i \in 1..Len(scout_chapters) : InCoverage(coverage, scout_chapters[i])
    /\ names = <<>>

\* the file holds the records and the coverage of the store: the same
\* originals, for each the same renderings with the same counts, and the
\* same coverage list (no file stands for the empty store)
FileHoldsStore ==
    \/ disk.kind = "missing" /\ names = <<>> /\ coverage = <<>>
    \/ /\ disk.kind = "json"
       /\ disk.data.coverage = coverage
       /\ DOMAIN disk.data.names = DOMAIN names
       /\ \A o \in DOMAIN names :
              /\ DOMAIN disk.data.names[o]["votes"] = RenderingsOf(names, o)
              /\ \A e \in RenderingsOf(names, o) :
                     disk.data.names[o]["votes"][e] = VotesFor(names, o, e)

\* C35: the file equals the records and the coverage of the store whenever
\* a chapter is submitted to the scout and whenever run_name_scout returns
\* Ok, after the purge of the load as after every record_votes and
\* add_coverage.
C35_PersistedAfterEveryMutation ==
    [][(\/ call'.op = "collect_names"
        \/ scouted' # <<>> /\ scouted'[1].ok) => FileHoldsStore']_vars

----------------------------------------------------------------------------
(* Claims: the pipeline of main *)

\* C33: every text main hands to the translator, title or content, is a
\* result of apply_to_text on the text of the novel with the store of
\* that moment, and is handed over in the translation phase, after
\* run_name_scout has returned for the chapters of the run and after the
\* manual review.
C33_TranslatorGetsMappedText ==
    [][\A i \in (Len(handed) + 1)..Len(handed') :
           /\ handed'[i].text \in apply_to_text(names, handed'[i].raw)
           /\ main_pc = "translate"
           /\ scout_pc = "returned"
           /\ scouted # <<>>
           /\ scouted[1].ok]_vars

\* C34: the manual review is left for the translation phase only, by a
\* reload_from_disk that returned Ok on a file that deserializes; a reload
\* that returns Err leaves names, coverage and the file as they were and
\* the review goes on with the next prompt.
C34_ReviewEndsOnGoodReload ==
    [][/\ (main_pc = "review" /\ main_pc' # "review") =>
              /\ main_pc' = "translate"
              /\ call'.op = "reload_from_disk"
              /\ call'.ok
              /\ disk.kind = "json"
              /\ coverage' = disk.data.coverage
       /\ (main_pc = "review" /\ call'.op = "reload_from_disk"
               /\ ~call'.ok) =>
              /\ names' = names
              /\ coverage' = coverage
              /\ disk' = disk
              /\ main_pc' = "review"
       /\ (main_pc = "review" /\ call'.op = "reload_from_disk"
               /\ disk.kind # "json") => ~call'.ok]_vars

\* the file under review does not deserialize, a reload has failed, the
\* store has the record and the coverage of the scouting, and the review
\* has not ended
C34_Witness ==
    /\ main_pc = "review"
    /\ call.op = "reload_from_disk"
    /\ ~call.ok
    /\ disk.kind = "garbage"
    /\ DOMAIN names = {<<"u7530", "u4E2D">>}
    /\ coverage # <<>>

====
